---- MODULE Spec2Model ----
(***************************************************************************)
(* Download job manager of signalk-charts-provider-simple                  *)
(* (utils/download-manager.js): the job table, the bounded-concurrency     *)
(* scheduler, the fetch/extract pipeline of each job, cancellation and the *)
(* retention sweep, together with the part of the file system they act on. *)
(*                                                                         *)
(* JavaScript strings that the code inspects (URLs, chart names, archive   *)
(* entry paths, content types, file paths) are sequences of one-character  *)
(* strings, so that endsWith, trim, split, path.basename and path.join are *)
(* computed as the code computes them.  Error messages are plain strings.  *)
(***************************************************************************)
EXTENDS Integers, Sequences, FiniteSets, Bags, TLC

(***************************************************************************)
(* String and path primitives                                              *)
(***************************************************************************)

\* String.prototype.endsWith
endsWith(s, suf) ==
  /\ Len(s) >= Len(suf)
  /\ SubSeq(s, Len(s) - Len(suf) + 1, Len(s)) = suf

\* String.prototype.includes
includes(s, sub) ==
  \E i \in 1..(Len(s) - Len(sub) + 1) : SubSeq(s, i, i + Len(sub) - 1) = sub

Whitespace == {" "}

\* String.prototype.trim
RECURSIVE trim(_)
trim(s) ==
  IF s = <<>> THEN s
  ELSE IF Head(s) \in Whitespace THEN trim(Tail(s))
  ELSE IF s[Len(s)] \in Whitespace THEN trim(SubSeq(s, 1, Len(s) - 1))
  ELSE s

\* s.split(c)[0]: the prefix of s before the first occurrence of c
RECURSIVE splitFirst(_, _)
splitFirst(s, c) ==
  IF s = <<>> \/ Head(s) = c THEN <<>>
  ELSE <<Head(s)>> \o splitFirst(Tail(s), c)

\* s.split('/'): the segments of s between slashes
RECURSIVE splitSlash(_)
splitSlash(s) ==
  LET first == splitFirst(s, "/") IN
  IF Len(first) = Len(s) THEN <<first>>
  ELSE <<first>> \o splitSlash(SubSeq(s, Len(first) + 2, Len(s)))

\* segs.join('/')
RECURSIVE joinSlash(_)
joinSlash(segs) ==
  IF segs = <<>> THEN <<>>
  ELSE IF Len(segs) = 1 THEN segs[1]
  ELSE segs[1] \o <<"/">> \o joinSlash(Tail(segs))

RECURSIVE stripTrailingSlashes(_)
stripTrailingSlashes(s) ==
  IF s # <<>> /\ s[Len(s)] = "/" THEN stripTrailingSlashes(SubSeq(s, 1, Len(s) - 1))
  ELSE s

\* path.basename (POSIX): the last segment, trailing slashes ignored
basename(p) ==
  LET q == stripTrailingSlashes(p)
      segs == splitSlash(q)
  IN  segs[Len(segs)]

\* The segment walk of path.normalize: '.' and empty segments are dropped and
\* '..' removes the segment before it (above the root of an absolute path it
\* is dropped, at the front of a relative path it is kept).
RECURSIVE normalizeSegs(_, _, _)
normalizeSegs(segs, acc, isAbs) ==
  IF segs = <<>> THEN acc
  ELSE LET h == Head(segs) IN
       IF h = <<>> \/ h = <<".">> THEN normalizeSegs(Tail(segs), acc, isAbs)
       ELSE IF h = <<".", ".">>
            THEN IF acc # <<>> /\ acc[Len(acc)] # <<".", ".">>
                   THEN normalizeSegs(Tail(segs), SubSeq(acc, 1, Len(acc) - 1), isAbs)
                 ELSE IF isAbs THEN normalizeSegs(Tail(segs), acc, isAbs)
                 ELSE normalizeSegs(Tail(segs), Append(acc, h), isAbs)
       ELSE normalizeSegs(Tail(segs), Append(acc, h), isAbs)

\* path.normalize (POSIX)
normalize(p) ==
  IF p = <<>> THEN <<".">>
  ELSE LET isAbs == Head(p) = "/"
           trailing == p[Len(p)] = "/"
           body == joinSlash(normalizeSegs(splitSlash(p), <<>>, isAbs))
       IN  IF body = <<>>
             THEN (IF isAbs THEN <<"/">> ELSE IF trailing THEN <<".", "/">> ELSE <<".">>)
           ELSE (IF isAbs THEN <<"/">> ELSE <<>>) \o body
                  \o (IF trailing THEN <<"/">> ELSE <<>>)

\* path.join(a, b) (POSIX)
pathJoin(a, b) ==
  IF a = <<>> THEN normalize(b)
  ELSE IF b = <<>> THEN normalize(a)
  ELSE normalize(a \o <<"/">> \o b)

\* path.dirname (POSIX) of a normalized absolute path
dirname(p) ==
  LET q == stripTrailingSlashes(p)
      segs == splitSlash(q)
      d == joinSlash(SubSeq(segs, 1, Len(segs) - 1))
  IN  IF d = <<>> THEN <<"/">> ELSE d

(***************************************************************************)
(* Bounds of the model and constants of the program                        *)
(***************************************************************************)

\* Number of createJob calls in a behaviour of Spec
MaxJobs == 5
\* Number of createJob calls in a behaviour of SpecSweep
MaxSweepJobs == 4
\* Number of createJob calls in a behaviour of SpecFiles
MaxFileJobs == 1
\* Redirect responses followed per job
MaxRedirects == 1
\* Entries an archive delivers
MaxEntries == 2
\* Bytes a response body delivers
MaxBytes == 14
\* Number of createJob calls in a behaviour of SpecTransfer
MaxTransferJobs == 1
\* Number of createJob calls in a behaviour of SpecRetention
MaxRetentionJobs == 2
\* Number of createJob calls in a behaviour of SpecProgress
MaxProgressJobs == 1
\* Number of createJob calls in a behaviour of SpecTermination
MaxTerminationJobs == 2
\* Clock ticks in a behaviour of SpecRetention
MaxRetentionTime == 3
\* fs.unlink calls pending at a time
MaxUnlinks == 2
\* Clock ticks (the clock counts hours)
MaxTime == 2

\* this.maxConcurrent
maxConcurrent == 3
\* 60 * 60 * 1000 ms, in hours
OneHour == 1
\* Math.min(90, ...): the share of progress reserved for the transfer
TransferShare == 90

MBTILES == <<".", "m", "b", "t", "i", "l", "e", "s">>
ZIP     == <<".", "z", "i", "p">>
ZipWord == <<"z", "i", "p">>

Undefined == -1
NoError   == "undefined"
NoHeader  == <<"undefined">>

CancelledMsg == "Cancelled by user"
NoFilesMsg   == "No .mbtiles files found in archive"
DefaultMsg   == "Download failed"
HttpMsg(code) == "HTTP " \o ToString(code)

\* error.message || 'Download failed'
messageOf(msg) == IF msg = "" THEN DefaultMsg ELSE msg

(***************************************************************************)
(* State                                                                   *)
(***************************************************************************)

VARIABLES
  jobs,             \* this.jobs: the ids in the table, in insertion order
  obj,              \* the job objects ever created, by id (a purged job's
                    \* object stays referenced by its pipeline's closures)
  activeDownloads,  \* this.activeDownloads
  pipe,             \* per job: where its processJob/downloadAndExtract is
  files,            \* paths of the regular files that exist
  unlinks,          \* fs.unlink calls issued and not yet carried out (a bag)
  result,           \* what the last cancelJob call returned
  cancelledFiles,   \* history: the paths cancelJob has asked to be deleted
  now,              \* Date.now(), in hours
  disk,             \* the directory tree under the chart path (charts-loader)
  found,            \* what the last findCharts call resolved to
  chartState,       \* chart-state.js: chartState, by relative path
  chartProviders,   \* the registry the routes serve from, by identifier
  refreshes,        \* the findCharts calls of doStartup/refreshChartProviders
                    \* under way, oldest first: what each has read so far
  tileStore,        \* the tile files and the tiles of the tile databases
  responses,        \* the tile requests handled so far, with their answers
  up                \* the process is running

\* The variables of the chart discovery
loaderVars == <<disk, found>>

\* The variables of the plugin's routes
serverVars == <<chartState, chartProviders, refreshes, tileStore, responses, up>>

pluginVars == <<loaderVars, serverVars>>

vars == <<jobs, obj, activeDownloads, pipe, files, unlinks, result, cancelledFiles, now,
          pluginVars>>

\* Directories that exist; every targetDir exists (its caller creates it).
Root == <<"/">>
ChartDir == <<"/", "c">>
SubDir == <<"/", "c", "/", "d">>
dirs == {Root, ChartDir, SubDir}

NewPipe ==
  [ req       |-> "none",     \* none | pending | ok | failed | aborted
    redirects |-> 0,
    settled   |-> FALSE,      \* the promise processJob awaits is settled
    mode      |-> "none",     \* none | archive | direct
    parser    |-> "none",     \* none | parsing | awaiting | done | errored
    entries   |-> 0,          \* archive entries delivered so far
    ended     |-> FALSE,      \* the response body has been read to its end
    streams   |-> <<>> ]      \* the write streams opened, in opening order

\* The download manager after construction
InitManager ==
  /\ jobs = <<>>
  /\ obj = <<>>
  /\ activeDownloads = 0
  /\ pipe = <<>>
  /\ files = {}
  /\ unlinks = EmptyBag
  /\ result = "none"
  /\ cancelledFiles = {}
  /\ now = 0

\* A directory without entries
EmptyDir == [readable |-> TRUE, entries |-> <<>>]

\* No findCharts call has resolved yet
NotScanned == [done |-> FALSE, defined |-> FALSE, charts |-> <<>>]

\* The plugin before doStartup: empty chart state and registry, no tiles
InitServer ==
  /\ chartState = <<>>
  /\ chartProviders = <<>>
  /\ refreshes = <<>>
  /\ tileStore = [files |-> <<>>, tiles |-> <<>>]
  /\ responses = <<>>
  /\ up = TRUE

Init ==
  /\ InitManager
  /\ disk = EmptyDir
  /\ found = NotScanned
  /\ InitServer

Ids == 1..Len(obj)

InTable(id) == \E i \in 1..Len(jobs) : jobs[i] = id

Active == {"queued", "downloading", "extracting"}
Terminal == {"completed", "failed"}

(***************************************************************************)
(* The scheduler.  A machine m = [obj, pipe, active] is threaded through   *)
(* the synchronous parts of a handler.                                     *)
(***************************************************************************)

Machine == [obj |-> obj, pipe |-> pipe, active |-> activeDownloads]

\* Mutant of firstQueued: the youngest queued job is taken
lastQueued(o, table) ==
  LET qs == {i \in 1..Len(table) : o[table[i]].status = "queued"} IN
  IF qs = {} THEN 0
  ELSE table[CHOOSE i \in qs : \A k \in qs : i >= k]

\* Array.from(this.jobs.values()).find(job => job.status === 'queued')
firstQueued(o, table) ==
  LET qs == {i \in 1..Len(table) : o[table[i]].status = "queued"} IN
  IF qs = {} THEN 0
  ELSE table[CHOOSE i \in qs : \A k \in qs : i <= k]

\* Mutant of processJobStart: the job is not marked, it stays queued
processJobStartUnmarked(m, id) ==
  [m EXCEPT !.pipe[id].req = "pending"]

\* processJob up to its await: the job is marked and the request is issued
processJobStart(m, id) ==
  [m EXCEPT !.obj[id].status = "downloading",
            !.pipe[id].req = "pending"]

\* Mutant of processQueue: the bound is tested with > instead of >=
processQueueOffByOne(m, table) ==
  IF m.active > maxConcurrent THEN m
  ELSE LET q == firstQueued(m.obj, table) IN
       IF q = 0 THEN m
       ELSE processJobStart([m EXCEPT !.active = @ + 1], q)

\* processQueue up to its await
processQueue(m, table) ==
  IF m.active >= maxConcurrent THEN m
  ELSE LET q == firstQueued(m.obj, table) IN
       IF q = 0 THEN m
       ELSE processJobStart([m EXCEPT !.active = @ + 1], q)

\* processJob after its await
processJobEnd(m, id, ok, msg) ==
  IF ok
    THEN [m EXCEPT !.obj[id].status = "completed",
                   !.obj[id].progress = 100,
                   !.obj[id].completedAt = now]
    ELSE [m EXCEPT !.obj[id].status = "failed",
                   !.obj[id].error = messageOf(msg),
                   !.obj[id].completedAt = now]

\* Mutant of settle: the slot is not given back
settleNoRelease(m, table, id, ok, msg) ==
  IF m.pipe[id].settled THEN m
  ELSE LET m1 == processJobEnd([m EXCEPT !.pipe[id].settled = TRUE], id, ok, msg)
       IN  processQueue(m1, table)

\* resolve() or reject(error) of the promise of downloadAndExtract, followed
\* by the continuations of processJob and processQueue; a promise settles once.
settle(m, table, id, ok, msg) ==
  IF m.pipe[id].settled THEN m
  ELSE LET m1 == processJobEnd([m EXCEPT !.pipe[id].settled = TRUE], id, ok, msg)
       IN  processQueue([m1 EXCEPT !.active = @ - 1], table)

Commit(m) ==
  /\ obj' = m.obj
  /\ pipe' = m.pipe
  /\ activeDownloads' = m.active

createJob(url, targetDir, chartName) ==
  LET id == Len(obj) + 1
      job == [ url |-> url, targetDir |-> targetDir, chartName |-> chartName,
               status |-> "queued", progress |-> 0, downloadedBytes |-> 0,
               totalBytes |-> 0, extractedFiles |-> <<>>, targetFiles |-> <<>>,
               createdAt |-> now, completedAt |-> Undefined, error |-> NoError ]
      table == Append(jobs, id)
      m == [obj |-> Append(obj, job), pipe |-> Append(pipe, NewPipe),
            active |-> activeDownloads]
  IN  /\ jobs' = table
      /\ Commit(processQueue(m, table))
      /\ UNCHANGED <<files, unlinks, result, cancelledFiles, now, pluginVars>>

\* getJob: the job object, or undefined
getJob(id) == IF InTable(id) THEN obj[id] ELSE Undefined

\* Array.prototype.sort with (a, b) => b.createdAt - a.createdAt: the sort
\* is stable, so x goes behind every element that does not compare after it
RECURSIVE insertByCreatedAt(_, _)
insertByCreatedAt(sorted, x) ==
  IF sorted = <<>> THEN <<x>>
  ELSE IF obj[x].createdAt - obj[Head(sorted)].createdAt > 0
    THEN <<x>> \o sorted
  ELSE <<Head(sorted)>> \o insertByCreatedAt(Tail(sorted), x)

RECURSIVE sortByCreatedAt(_, _)
sortByCreatedAt(rest, sorted) ==
  IF rest = <<>> THEN sorted
  ELSE sortByCreatedAt(Tail(rest), insertByCreatedAt(sorted, Head(rest)))

\* getAllJobs: the jobs of the table (their ids), sorted
getAllJobs == sortByCreatedAt(jobs, <<>>)

\* findJobsByTargetFile
RECURSIVE seqIncludes(_, _)
seqIncludes(s, x) ==
  IF s = <<>> THEN FALSE
  ELSE IF Head(s) = x THEN TRUE ELSE seqIncludes(Tail(s), x)

findJobsByTargetFile(fileName) ==
  {id \in Ids : /\ InTable(id)
                /\ obj[id].status \in {"downloading", "extracting", "queued"}
                /\ seqIncludes(obj[id].targetFiles, fileName)}

\* The unlink calls of cancelJob, one per entry of targetFiles
RECURSIVE unlinkAll(_, _)
unlinkAll(targetDir, names) ==
  IF names = <<>> THEN EmptyBag
  ELSE SetToBag({pathJoin(targetDir, Head(names))}) (+) unlinkAll(targetDir, Tail(names))

\* Mutant of cancelJob: a completed job is cancelled like any other
cancelJobAnyStatus(id) ==
  IF ~InTable(id)
    THEN /\ result' = "Job not found"
         /\ UNCHANGED <<jobs, obj, activeDownloads, pipe, files, unlinks, cancelledFiles, now, pluginVars>>
  ELSE /\ obj' = [obj EXCEPT ![id].status = "failed",
                             ![id].error = CancelledMsg,
                             ![id].completedAt = now]
       /\ unlinks' = unlinks (+) unlinkAll(obj[id].targetDir, obj[id].targetFiles)
       /\ cancelledFiles' = cancelledFiles \cup
            BagToSet(unlinkAll(obj[id].targetDir, obj[id].targetFiles))
       /\ result' = "success"
       /\ UNCHANGED <<jobs, activeDownloads, pipe, files, now, pluginVars>>

\* Mutant of cancelJob: a queued job keeps its status (only running jobs
\* are marked failed)
cancelJobRunningOnly(id) ==
  IF ~InTable(id)
    THEN /\ result' = "Job not found"
         /\ UNCHANGED <<jobs, obj, activeDownloads, pipe, files, unlinks, cancelledFiles, now, pluginVars>>
  ELSE IF obj[id].status = "completed"
    THEN /\ result' = "Job already completed"
         /\ UNCHANGED <<jobs, obj, activeDownloads, pipe, files, unlinks, cancelledFiles, now, pluginVars>>
  ELSE /\ obj' = [obj EXCEPT ![id].status = IF @ = "queued" THEN @ ELSE "failed",
                             ![id].error = CancelledMsg,
                             ![id].completedAt = now]
       /\ unlinks' = unlinks (+) unlinkAll(obj[id].targetDir, obj[id].targetFiles)
       /\ cancelledFiles' = cancelledFiles \cup
            BagToSet(unlinkAll(obj[id].targetDir, obj[id].targetFiles))
       /\ result' = "success"
       /\ UNCHANGED <<jobs, activeDownloads, pipe, files, now, pluginVars>>

cancelJob(id) ==
  IF ~InTable(id)
    THEN /\ result' = "Job not found"
         /\ UNCHANGED <<jobs, obj, activeDownloads, pipe, files, unlinks, cancelledFiles, now, pluginVars>>
  ELSE IF obj[id].status = "completed"
    THEN /\ result' = "Job already completed"
         /\ UNCHANGED <<jobs, obj, activeDownloads, pipe, files, unlinks, cancelledFiles, now, pluginVars>>
  ELSE /\ obj' = [obj EXCEPT ![id].status = "failed",
                             ![id].error = CancelledMsg,
                             ![id].completedAt = now]
       /\ unlinks' = unlinks (+) unlinkAll(obj[id].targetDir, obj[id].targetFiles)
       /\ cancelledFiles' = cancelledFiles \cup
            BagToSet(unlinkAll(obj[id].targetDir, obj[id].targetFiles))
       /\ result' = "success"
       /\ UNCHANGED <<jobs, activeDownloads, pipe, files, now, pluginVars>>

RECURSIVE keepJobs(_, _)
keepJobs(table, drop) ==
  IF table = <<>> THEN <<>>
  ELSE IF Head(table) \in drop THEN keepJobs(Tail(table), drop)
  ELSE <<Head(table)>> \o keepJobs(Tail(table), drop)

\* Mutant of cleanup: a job that ended exactly one hour ago is purged too
cleanupInclusive ==
  LET oneHourAgo == now - OneHour
      old == {id \in Ids : /\ InTable(id)
                           /\ obj[id].status \in {"completed", "failed"}
                           /\ obj[id].completedAt # Undefined
                           /\ obj[id].completedAt <= oneHourAgo}
  IN  /\ jobs' = keepJobs(jobs, old)
      /\ UNCHANGED <<obj, activeDownloads, pipe, files, unlinks, result, cancelledFiles, now, pluginVars>>

cleanup ==
  LET oneHourAgo == now - OneHour
      old == {id \in Ids : /\ InTable(id)
                           /\ obj[id].status \in {"completed", "failed"}
                           /\ obj[id].completedAt # Undefined
                           /\ obj[id].completedAt < oneHourAgo}
  IN  /\ jobs' = keepJobs(jobs, old)
      /\ UNCHANGED <<obj, activeDownloads, pipe, files, unlinks, result, cancelledFiles, now, pluginVars>>

\* The clock advances
Tick(d) ==
  /\ now' = now + d
  /\ UNCHANGED <<jobs, obj, activeDownloads, pipe, files, unlinks, result, cancelledFiles,
                 pluginVars>>

\* The file system carries out one pending unlink: the path is removed if it
\* is there (ENOENT otherwise; the callbacks change no state either way).
unlinkDone(p) ==
  /\ BagIn(p, unlinks)
  /\ unlinks' = unlinks (-) SetToBag({p})
  /\ files' = files \ {p}
  /\ UNCHANGED <<jobs, obj, activeDownloads, pipe, result, cancelledFiles, now, pluginVars>>

(***************************************************************************)
(* The fetch/extract pipeline of one job (downloadAndExtract)              *)
(***************************************************************************)

\* A write stream: the path it writes, its state, and the error it emitted.
\*   opening  created by fs.createWriteStream, the file not yet opened
\*   open     the file is open (created or truncated)
\*   finished 'finish' emitted (direct file)
\*   closed   'close' emitted after a complete write (archive entry)
\*   failed   'error' emitted, 'close' not yet
\*   failedClosed  'close' emitted after the error
newStream(path, fileName) ==
  [path |-> path, fileName |-> fileName, state |-> "opening", err |-> NoError]

\* The destination name of a direct file
directFileName(chartName, url) ==
  IF trim(chartName) # <<>>
    THEN LET fileName == trim(chartName) IN
         IF ~endsWith(fileName, MBTILES) THEN fileName \o MBTILES ELSE fileName
    ELSE LET fileName == splitFirst(basename(url), "?") IN
         IF ~endsWith(fileName, MBTILES) THEN fileName \o MBTILES ELSE fileName

\* contentType.includes('zip') || job.url.endsWith('.zip')
isZip(contentType, url) == includes(contentType, ZipWord) \/ endsWith(url, ZIP)

\* The state of the extraction promise of an archive write stream
promiseOf(st) ==
  IF st.state = "closed" THEN "resolved"
  ELSE IF st.state \in {"failed", "failedClosed"} THEN "rejected"
  ELSE "pending"

\* Mutant of afterAwait: an archive without charts resolves
afterAwaitNoCheck(m, table, id) ==
  LET ss == m.pipe[id].streams
      rejected == {k \in 1..Len(ss) : promiseOf(ss[k]) = "rejected"}
      pending == {k \in 1..Len(ss) : promiseOf(ss[k]) = "pending"}
  IN  IF m.pipe[id].parser # "awaiting" THEN m
      ELSE IF rejected # {}
        THEN LET k == CHOOSE k \in rejected : \A l \in rejected : k <= l IN
             settle([m EXCEPT !.pipe[id].parser = "done"], table, id, FALSE, ss[k].err)
      ELSE IF pending # {} THEN m
      ELSE settle([m EXCEPT !.pipe[id].parser = "done", !.obj[id].progress = 100],
                  table, id, TRUE, "")

\* The continuation of the 'finish' handler after await Promise.all(...):
\* it runs once, as soon as one promise is rejected or all are resolved.
afterAwait(m, table, id) ==
  LET ss == m.pipe[id].streams
      rejected == {k \in 1..Len(ss) : promiseOf(ss[k]) = "rejected"}
      pending == {k \in 1..Len(ss) : promiseOf(ss[k]) = "pending"}
  IN  IF m.pipe[id].parser # "awaiting" THEN m
      ELSE IF rejected # {}
        THEN LET k == CHOOSE k \in rejected : \A l \in rejected : k <= l IN
             settle([m EXCEPT !.pipe[id].parser = "done"], table, id, FALSE, ss[k].err)
      ELSE IF pending # {} THEN m
      ELSE IF Len(m.obj[id].extractedFiles) = 0
        THEN settle([m EXCEPT !.pipe[id].parser = "done"], table, id, FALSE, NoFilesMsg)
      ELSE settle([m EXCEPT !.pipe[id].parser = "done", !.obj[id].progress = 100],
                  table, id, TRUE, "")

\* The response callback of protocol.get
response(id, statusCode, location, contentType, contentLength) ==
  /\ pipe[id].req = "pending"
  /\ IF statusCode \in {301, 302} /\ location # NoHeader
       THEN \* follow the redirect: a new request for the rewritten url
            /\ obj' = [obj EXCEPT ![id].url = location]
            /\ pipe' = [pipe EXCEPT ![id].redirects = @ + 1]
            /\ UNCHANGED activeDownloads
     ELSE IF statusCode # 200
       THEN Commit(settle([Machine EXCEPT !.pipe[id].req = "failed"], jobs, id,
                          FALSE, HttpMsg(statusCode)))
     ELSE IF isZip(contentType, obj[id].url)
       THEN /\ obj' = [obj EXCEPT ![id].totalBytes = contentLength,
                                  ![id].status = "extracting"]
            /\ pipe' = [pipe EXCEPT ![id].req = "ok",
                                    ![id].mode = "archive",
                                    ![id].parser = "parsing"]
            /\ UNCHANGED activeDownloads
     ELSE LET fileName == directFileName(obj[id].chartName, obj[id].url)
              targetPath == pathJoin(obj[id].targetDir, fileName)
          IN  /\ obj' = [obj EXCEPT ![id].totalBytes = contentLength,
                                    ![id].targetFiles = Append(@, fileName)]
              /\ pipe' = [pipe EXCEPT ![id].req = "ok",
                                      ![id].mode = "direct",
                                      ![id].streams = <<newStream(targetPath, fileName)>>]
              /\ UNCHANGED activeDownloads
  /\ UNCHANGED <<jobs, files, unlinks, result, cancelledFiles, now, pluginVars>>

\* The 'error' event of the request
requestError(id, msg) ==
  /\ pipe[id].req = "pending"
  /\ Commit(settle([Machine EXCEPT !.pipe[id].req = "failed"], jobs, id, FALSE, msg))
  /\ UNCHANGED <<jobs, files, unlinks, result, cancelledFiles, now, pluginVars>>

\* The connection is lost while the body is being read.  After a socket
\* error the request emits 'error' (hadError); after a plain close the
\* response emits 'aborted' and 'close', to which nothing listens.  Either
\* way the response never emits 'end', so pipe() ends no destination.
socketClose(id, hadError, msg) ==
  /\ pipe[id].req = "ok"
  /\ ~pipe[id].ended
  /\ IF hadError
       THEN Commit(settle([Machine EXCEPT !.pipe[id].req = "aborted"], jobs, id,
                          FALSE, msg))
     ELSE /\ pipe' = [pipe EXCEPT ![id].req = "aborted"]
          /\ UNCHANGED <<obj, activeDownloads>>
  /\ UNCHANGED <<jobs, files, unlinks, result, cancelledFiles, now, pluginVars>>

(***************************************************************************)
(* IEEE 754 binary64 arithmetic on positive values, as far as the progress *)
(* computation needs it.  A double is [bits, exp]: the binary digits of    *)
(* its significand as an integer, most significant first, and the power of *)
(* two that scales it.  Every result is rounded to nearest, ties to even.  *)
(***************************************************************************)

\* Digits of a double's significand
Precision == 53

RECURSIVE pow2(_)
pow2(n) == IF n = 0 THEN 1 ELSE 2 * pow2(n - 1)

\* The binary digits of a natural number (none for 0)
RECURSIVE natBits(_)
natBits(n) == IF n = 0 THEN <<>> ELSE Append(natBits(n \div 2), n % 2)

\* The natural number a short digit sequence denotes
RECURSIVE intOf(_)
intOf(b) == IF b = <<>> THEN 0 ELSE 2 * intOf(SubSeq(b, 1, Len(b) - 1)) + b[Len(b)]

\* b + 1
incBits(b) ==
  LET zeros == {i \in 1..Len(b) : b[i] = 0} IN
  IF zeros = {} THEN <<1>> \o [i \in 1..Len(b) |-> 0]
  ELSE LET j == CHOOSE i \in zeros : \A k \in zeros : k <= i
       IN  [i \in 1..Len(b) |-> IF i < j THEN b[i] ELSE IF i = j THEN 1 ELSE 0]

\* Digits handled at a time by mulBits
Limb == 18

\* The Limb binary digits of n < 2^Limb
limbBits(n) == [i \in 1..Limb |-> (n \div pow2(Limb - i)) % 2]

\* b * k, for at most three limbs of digits b and 0 < k < 2^12
mulBits(b, k) ==
  LET n == Len(b)
      lo == intOf(SubSeq(b, n - Limb + 1, n)) * k
      mid == intOf(SubSeq(b, n - 2 * Limb + 1, n - Limb)) * k + lo \div pow2(Limb)
      hi == intOf(SubSeq(b, 1, n - 2 * Limb)) * k + mid \div pow2(Limb)
  IN  natBits(hi) \o limbBits(mid % pow2(Limb)) \o limbBits(lo % pow2(Limb))

\* Round the digits b, followed by something nonzero iff sticky, to their
\* first Precision digits (nearest, ties to even)
roundBits(b, sticky) ==
  IF Len(b) <= Precision THEN b
  ELSE LET kept == SubSeq(b, 1, Precision)
           guard == b[Precision + 1]
           rest == sticky \/ \E i \in (Precision + 2)..Len(b) : b[i] = 1
       IN  IF guard = 1 /\ (rest \/ kept[Precision] = 1) THEN incBits(kept) ELSE kept

\* 2^n mod c (square and multiply), for c < 2^15
RECURSIVE pow2mod(_, _)
pow2mod(n, c) ==
  IF n = 0 THEN 1 % c
  ELSE LET h == pow2mod(n \div 2, c)
           sq == (h * h) % c
       IN  IF n % 2 = 0 THEN sq ELSE (2 * sq) % c

\* Digit i after the point of the binary expansion of r / c (0 <= r < c < 2^15)
quotientBit(r, c, i) == (2 * ((r * pow2mod(i - 1, c)) % c)) \div c

\* e with 2^e <= d / c < 2^(e+1), for d, c > 0
RECURSIVE exponentOf(_, _)
exponentOf(d, c) ==
  IF d >= 2 * c THEN exponentOf(d, 2 * c) + 1
  ELSE IF d < c THEN exponentOf(2 * d, c) - 1
  ELSE 0

\* d / c for integers 0 < d, c < 2^14
divide(d, c) ==
  LET e == exponentOf(d, c)
      dd == IF e < 0 THEN d * pow2(-e) ELSE d
      cc == IF e > 0 THEN c * pow2(e) ELSE c
      r == dd - cc
      q == <<1>> \o [i \in 1..Precision |-> quotientBit(r, cc, i)]
      rem == (r * pow2mod(Precision, cc)) % cc
  IN  [bits |-> roundBits(q, rem # 0), exp |-> e - (Precision - 1)]

\* x * k for a double x > 0 and an integer 0 < k < 2^12
times(x, k) ==
  LET p == mulBits(x.bits, k)
      drop == IF Len(p) > Precision THEN Len(p) - Precision ELSE 0
  IN  [bits |-> roundBits(p, FALSE), exp |-> x.exp + drop]

\* Math.floor(x) for a double 0 < x < 2^31
floor(x) ==
  IF Len(x.bits) + x.exp <= 0 THEN 0
  ELSE intOf(SubSeq(x.bits, 1, Len(x.bits) + x.exp))

min(a, b) == IF a <= b THEN a ELSE b

\* Math.min(90, Math.floor((downloadedBytes / contentLength) * 90))
progressOf(downloadedBytes, contentLength) ==
  IF downloadedBytes = 0 THEN 0
  ELSE min(TransferShare,
           floor(times(divide(downloadedBytes, contentLength), TransferShare)))

\* Mutant of data: progress is computed from the chunk, not from the bytes
\* received so far
dataPerChunk(id, chunkLength) ==
  /\ pipe[id].req = "ok"
  /\ ~pipe[id].ended
  /\ LET downloadedBytes == obj[id].downloadedBytes + chunkLength
         contentLength == obj[id].totalBytes
     IN  obj' = [obj EXCEPT
           ![id].downloadedBytes = downloadedBytes,
           ![id].progress =
              IF contentLength > 0
                THEN progressOf(chunkLength, contentLength)
              ELSE @]
  /\ UNCHANGED <<jobs, activeDownloads, pipe, files, unlinks, result, cancelledFiles, now, pluginVars>>

\* The 'data' event of the response
data(id, chunkLength) ==
  /\ pipe[id].req = "ok"
  /\ ~pipe[id].ended
  /\ LET downloadedBytes == obj[id].downloadedBytes + chunkLength
         contentLength == obj[id].totalBytes
     IN  obj' = [obj EXCEPT
           ![id].downloadedBytes = downloadedBytes,
           ![id].progress =
              IF contentLength > 0
                THEN progressOf(downloadedBytes, contentLength)
              ELSE @]
  /\ UNCHANGED <<jobs, activeDownloads, pipe, files, unlinks, result, cancelledFiles, now, pluginVars>>

\* The 'entry' event of the archive parser
entry(id, fileName, type) ==
  /\ pipe[id].req = "ok"
  /\ pipe[id].parser = "parsing"
  /\ IF type = "File" /\ endsWith(fileName, MBTILES)
       THEN LET targetPath == pathJoin(obj[id].targetDir, basename(fileName))
                targetFileName == basename(fileName)
            IN  /\ obj' = [obj EXCEPT ![id].targetFiles = Append(@, targetFileName)]
                /\ pipe' = [pipe EXCEPT
                     ![id].entries = @ + 1,
                     ![id].streams = Append(@, newStream(targetPath, fileName))]
     ELSE \* entry.autodrain()
          /\ pipe' = [pipe EXCEPT ![id].entries = @ + 1]
          /\ UNCHANGED obj
  /\ UNCHANGED <<jobs, activeDownloads, files, unlinks, result, cancelledFiles, now, pluginVars>>

\* The 'finish' event of the archive parser
parserFinish(id) ==
  /\ pipe[id].req = "ok"
  /\ pipe[id].parser = "parsing"
  /\ Commit(afterAwait([Machine EXCEPT !.pipe[id].parser = "awaiting",
                                       !.pipe[id].ended = TRUE], jobs, id))
  /\ UNCHANGED <<jobs, files, unlinks, result, cancelledFiles, now, pluginVars>>

\* The 'error' event of the archive parser
parserError(id, msg) ==
  /\ pipe[id].parser = "parsing"
  /\ Commit(settle([Machine EXCEPT !.pipe[id].parser = "errored"], jobs, id, FALSE, msg))
  /\ UNCHANGED <<jobs, files, unlinks, result, cancelledFiles, now, pluginVars>>

\* The 'error' handler of write stream k of job id
streamErrorHandler(m, table, id, k, msg) ==
  LET m1 == [m EXCEPT !.pipe[id].streams[k].state = "failed",
                      !.pipe[id].streams[k].err = msg]
  IN  IF m.pipe[id].mode = "direct"
        THEN settle(m1, table, id, FALSE, msg)
      ELSE afterAwait(m1, table, id)

\* The unlink the direct file's 'error' handler issues
streamErrorUnlinks(id, k) ==
  IF pipe[id].mode = "direct" THEN SetToBag({pipe[id].streams[k].path}) ELSE EmptyBag

\* The file system opens the file of write stream k: the file is created if
\* its directory exists, else the stream emits 'error' (ENOENT)
openDone(id, k) ==
  /\ k \in 1..Len(pipe[id].streams)
  /\ pipe[id].streams[k].state = "opening"
  /\ LET path == pipe[id].streams[k].path IN
     IF dirname(path) \in dirs /\ path \notin dirs
       THEN /\ files' = files \cup {path}
            /\ pipe' = [pipe EXCEPT ![id].streams[k].state = "open"]
            /\ UNCHANGED <<obj, activeDownloads, unlinks>>
     ELSE /\ Commit(streamErrorHandler(Machine, jobs, id, k, "ENOENT"))
          /\ unlinks' = unlinks (+) streamErrorUnlinks(id, k)
          /\ UNCHANGED files
  /\ UNCHANGED <<jobs, result, cancelledFiles, now, pluginVars>>

\* A write to the open file of write stream k fails: the stream emits 'error'
writeError(id, k, msg) ==
  /\ k \in 1..Len(pipe[id].streams)
  /\ pipe[id].streams[k].state = "open"
  /\ Commit(streamErrorHandler(Machine, jobs, id, k, msg))
  /\ unlinks' = unlinks (+) streamErrorUnlinks(id, k)
  /\ UNCHANGED <<jobs, files, result, cancelledFiles, now, pluginVars>>

\* The 'close' event of the write stream of an archive entry, after the
\* entry's last byte was written or after the stream's error
entryClose(id, k) ==
  /\ pipe[id].mode = "archive"
  /\ k \in 1..Len(pipe[id].streams)
  /\ pipe[id].streams[k].state \in {"open", "failed"}
  /\ LET st == pipe[id].streams[k]
         m == [Machine EXCEPT
                 !.obj[id].extractedFiles = Append(@, basename(st.fileName)),
                 !.pipe[id].streams[k].state =
                    IF st.state = "open" THEN "closed" ELSE "failedClosed"]
     IN  Commit(afterAwait(m, jobs, id))
  /\ UNCHANGED <<jobs, files, unlinks, result, cancelledFiles, now, pluginVars>>

\* The 'finish' event of the write stream of a direct file: the response
\* has ended and every byte is written
directFinish(id) ==
  /\ pipe[id].req = "ok"
  /\ pipe[id].mode = "direct"
  /\ pipe[id].streams[1].state = "open"
  /\ LET st == pipe[id].streams[1]
         m == [Machine EXCEPT
                 !.obj[id].extractedFiles = Append(@, basename(st.path)),
                 !.obj[id].progress = 100,
                 !.pipe[id].streams[1].state = "finished",
                 !.pipe[id].ended = TRUE]
     IN  Commit(settle(m, jobs, id, TRUE, ""))
  /\ UNCHANGED <<jobs, files, unlinks, result, cancelledFiles, now, pluginVars>>

(***************************************************************************)
(* Chart discovery (charts-loader.js)                                      *)
(*                                                                         *)
(* A directory is [readable, entries]: whether fs.readdir succeeds on it,  *)
(* and its entries in readdir order.  An entry is [name, isDirectory,      *)
(* content]; the content of a directory entry is a directory, the content  *)
(* of a file is what its bytes are:                                        *)
(*   [kind |-> "sqlite", metadata |-> m]  a tile database, m its getInfo   *)
(*   [kind |-> "xml", parsed |-> p]       XML, p what xml2js makes of it   *)
(*   [kind |-> "json", value |-> v]       JSON, v what JSON.parse returns  *)
(*   [kind |-> "garbage"]                 bytes that no parser accepts     *)
(* Objects are functions from property names to values; a value that may   *)
(* be undefined is None or Some(v).                                        *)
(***************************************************************************)

None == <<>>
Some(v) == <<v>>

\* obj[key], undefined if the object has no such property
get(object, key) == IF key \in DOMAIN object THEN Some(object[key]) ELSE None

\* The lower-case form of the letters of '.mbtiles' (the /i flag)
lowerChar(c) ==
  CASE c = "M" -> "m" [] c = "B" -> "b" [] c = "T" -> "t" [] c = "I" -> "i"
    [] c = "L" -> "l" [] c = "E" -> "e" [] c = "S" -> "s" [] OTHER -> c

lower(str) == [i \in 1..Len(str) |-> lowerChar(str[i])]

\* name.match(/\.mbtiles$/i)
matchesMbtiles(name) == endsWith(lower(name), MBTILES)

\* filename.replace(/\.mbtiles$/i, '')
stripMbtiles(filename) ==
  IF matchesMbtiles(filename) THEN SubSeq(filename, 1, Len(filename) - Len(MBTILES))
  ELSE filename

TilemapResourceName == <<"t", "i", "l", "e", "m", "a", "p", "r", "e", "s", "o", "u", "r", "c", "e", ".", "x", "m", "l">>
MetadataJsonName == <<"m", "e", "t", "a", "d", "a", "t", "a", ".", "j", "s", "o", "n">>
NodeModules == <<"n", "o", "d", "e", "_", "m", "o", "d", "u", "l", "e", "s">>

(* Numbers: NaN, or [m, k] for m / 10^k with no trailing zero in m when k > 0 *)

NaN == [nan |-> TRUE]

RECURSIVE number(_, _)
number(m, k) ==
  IF k > 0 /\ m % 10 = 0 THEN number(m \div 10, k - 1)
  ELSE [nan |-> FALSE, m |-> m, k |-> k]

DigitValue ==
  [c \in {"0", "1", "2", "3", "4", "5", "6", "7", "8", "9"} |->
     CASE c = "0" -> 0 [] c = "1" -> 1 [] c = "2" -> 2 [] c = "3" -> 3 [] c = "4" -> 4
       [] c = "5" -> 5 [] c = "6" -> 6 [] c = "7" -> 7 [] c = "8" -> 8 [] c = "9" -> 9]

\* The longest prefix of decimal digits
RECURSIVE takeDigits(_)
takeDigits(str) ==
  IF str = <<>> \/ Head(str) \notin DOMAIN DigitValue THEN <<>>
  ELSE <<Head(str)>> \o takeDigits(Tail(str))

RECURSIVE digitsValue(_)
digitsValue(ds) ==
  IF ds = <<>> THEN 0 ELSE 10 * digitsValue(SubSeq(ds, 1, Len(ds) - 1)) + DigitValue[ds[Len(ds)]]

RECURSIVE trimStart(_)
trimStart(str) ==
  IF str # <<>> /\ Head(str) \in Whitespace THEN trimStart(Tail(str)) ELSE str

\* parseFloat of a string without exponent: leading whitespace, a sign, the
\* longest run of digits with at most one point; NaN when it has no digit
unsigned(t) == IF t # <<>> /\ Head(t) \in {"-", "+"} THEN Tail(t) ELSE t

fractionOf(u, ip) ==
  IF Len(u) > Len(ip) /\ u[Len(ip) + 1] = "."
    THEN takeDigits(SubSeq(u, Len(ip) + 2, Len(u)))
  ELSE <<>>

decimal(negative, ip, fp) ==
  IF ip = <<>> /\ fp = <<>> THEN NaN
  ELSE number(IF negative THEN 0 - digitsValue(ip \o fp) ELSE digitsValue(ip \o fp), Len(fp))

parseDigits(negative, u, ip) == decimal(negative, ip, fractionOf(u, ip))

parseUnsigned(negative, u) == parseDigits(negative, u, takeDigits(u))

parseTrimmed(t) == parseUnsigned(t # <<>> /\ Head(t) = "-", unsigned(t))

parseFloat(str) == parseTrimmed(trimStart(str))

\* str.split(',')
RECURSIVE splitComma(_)
splitComma(str) ==
  LET first == splitFirst(str, ",") IN
  IF Len(first) = Len(str) THEN <<first>>
  ELSE <<first>> \o splitComma(SubSeq(str, Len(first) + 2, Len(str)))

(* Chart descriptors.  nil tells a descriptor ("no") from null and from  *)
(* undefined.                                                              *)

NullChart == [nil |-> "null"]
UndefinedChart == [nil |-> "undefined"]

\* A value that is neither undefined nor the empty string
truthy(v) == v # None /\ v # Some(<<>>)

\* _.get(object, key) on an object that may be undefined
getIn(object, key) == IF object = None THEN None ELSE get(object[1], key)

\* openMbtilesFile after getInfo: null without metadata or bounds
mbtilesChart(file, filename, metadata) ==
  IF DOMAIN metadata = {} \/ get(metadata, "bounds") = None THEN NullChart
  ELSE [ nil |-> "no",
         fileFormat |-> "mbtiles",
         filePath |-> file,
         flipY |-> FALSE,
         identifier |-> stripMbtiles(filename),
         bounds |-> get(metadata, "bounds"),
         format |-> get(metadata, "format") ]

\* openMbtilesFile: an error of the MBTiles constructor or of getInfo is
\* caught and gives null; the promise is never rejected
openMbtilesFile(file, filename, e) ==
  IF e.isDirectory \/ e.content.kind # "sqlite" THEN NullChart
  ELSE mbtilesChart(file, filename, e.content.metadata)

\* bounds of parseTilemapResource: from BoundingBox.0.$, or undefined
boxBounds(bbox) ==
  IF bbox = None THEN None
  ELSE Some(<< parseFloat(bbox[1].minx), parseFloat(bbox[1].miny),
               parseFloat(bbox[1].maxx), parseFloat(bbox[1].maxy) >>)

\* Mutant of tilemapInfo: the descriptor is not marked for the row flip
tilemapInfoNoFlip(tileMap) ==
  [ nil |-> "no",
    flipY |-> FALSE,
    bounds |-> boxBounds(getIn(tileMap, "BoundingBox")),
    format |-> getIn(tileMap, "TileFormat"),
    identifier |-> <<>>,
    filePath |-> <<>> ]

\* The object parseTilemapResource builds from parsed.TileMap
tilemapInfo(tileMap) ==
  [ nil |-> "no",
    flipY |-> TRUE,
    bounds |-> boxBounds(getIn(tileMap, "BoundingBox")),
    format |-> getIn(tileMap, "TileFormat"),
    identifier |-> <<>>,
    filePath |-> <<>> ]

\* parseTilemapResource: [err, info], err when the promise is rejected
parseTilemapResource(e) ==
  IF e.isDirectory \/ e.content.kind # "xml" THEN [err |-> TRUE]
  ELSE [err |-> FALSE, info |-> tilemapInfo(get(e.content.parsed, "TileMap"))]

parseEach(parts) == [i \in 1..Len(parts) |-> parseFloat(trim(parts[i]))]

\* parseBounds of parseMetadataJson
parseBounds(bounds) ==
  IF bounds = None THEN None
  ELSE IF bounds[1].t = "string" THEN Some(parseEach(splitComma(bounds[1].v)))
  ELSE IF bounds[1].t = "array" /\ Len(bounds[1].items) = 4 THEN Some(bounds[1].items)
  ELSE None

\* The value of a JSON property that may be undefined
valueOf(property) == IF property = None THEN None ELSE Some(property[1].v)

\* The object parseMetadataJson builds from the parsed metadata
metadataInfo(metadata) ==
  [ nil |-> "no",
    flipY |-> FALSE,
    bounds |-> parseBounds(get(metadata, "bounds")),
    format |-> valueOf(get(metadata, "format")),
    identifier |-> <<>>,
    filePath |-> <<>> ]

\* parseMetadataJson: [err, info], err when the promise is rejected
parseMetadataJson(e) ==
  IF e.isDirectory \/ e.content.kind # "json" THEN [err |-> TRUE]
  ELSE IF e.content.value.t # "object" THEN [err |-> TRUE]
  ELSE [err |-> FALSE, info |-> metadataInfo(e.content.value.v)]

\* The entries of a directory with the given name
entriesNamed(dir, name) ==
  {i \in 1..Len(dir.entries) : dir.entries[i].name = name}

\* loadInfo of directoryToMapInfo (fs.stat succeeds iff the entry exists)
loadInfo(dir) ==
  IF entriesNamed(dir, TilemapResourceName) # {}
    THEN parseTilemapResource(
           dir.entries[CHOOSE i \in entriesNamed(dir, TilemapResourceName) : TRUE])
  ELSE IF entriesNamed(dir, MetadataJsonName) # {}
    THEN parseMetadataJson(
           dir.entries[CHOOSE i \in entriesNamed(dir, MetadataJsonName) : TRUE])
  ELSE [err |-> FALSE, info |-> NullChart]

\* The then and catch handlers of directoryToMapInfo on what loadInfo gave
toMapInfo(file, identifier, res) ==
  IF res.err THEN UndefinedChart
  ELSE IF res.info.nil # "no" THEN NullChart
  ELSE IF ~truthy(res.info.format) THEN NullChart
  ELSE [res.info EXCEPT !.identifier = identifier, !.filePath = file]
         @@ [fileFormat |-> "directory"]

\* directoryToMapInfo: a descriptor, null, or undefined after an error
directoryToMapInfo(file, identifier, dir) == toMapInfo(file, identifier, loadInfo(dir))

Rejected == [ok |-> FALSE, charts |-> <<>>]
Resolved(charts) == [ok |-> TRUE, charts |-> charts]

\* The results of two entries, flattened, or the rejection of either
concat(first, rest) ==
  IF ~first.ok \/ ~rest.ok THEN Rejected
  ELSE Resolved(first.charts \o rest.charts)

RECURSIVE findChartsRecursive(_, _)
RECURSIVE mapSeries(_, _)
RECURSIVE visit(_, _)
RECURSIVE chartOrWalk(_, _, _)

\* The then handler on directoryToMapInfo: the chart, or the walk of the directory
chartOrWalk(filePath, file, chartInfo) ==
  IF chartInfo.nil = "no" THEN Resolved(<<chartInfo>>)
  ELSE findChartsRecursive(filePath, file.content)

\* The iteratee of bluebird.mapSeries on one entry
visit(filePath, file) ==
  IF matchesMbtiles(file.name)
    THEN Resolved(<<openMbtilesFile(filePath, file.name, file)>>)
  ELSE IF file.isDirectory
    THEN IF Head(file.name) = "." \/ file.name = NodeModules THEN Resolved(<<>>)
         ELSE chartOrWalk(filePath, file,
                          directoryToMapInfo(filePath, file.name, file.content))
  ELSE Resolved(<<>>)

\* bluebird.mapSeries over the entries and _.flatten of the results
mapSeries(currentDir, entries) ==
  IF entries = <<>> THEN Resolved(<<>>)
  ELSE concat(visit(pathJoin(currentDir, Head(entries).name), Head(entries)),
              mapSeries(currentDir, Tail(entries)))

findChartsRecursive(currentDir, dir) ==
  IF ~dir.readable THEN Rejected
  ELSE mapSeries(currentDir, dir.entries)

\* Mutant of reduceCharts: the first chart of an identifier is kept
RECURSIVE reduceChartsFirstWins(_, _)
reduceChartsFirstWins(charts, acc) ==
  IF charts = <<>> THEN acc
  ELSE LET chart == Head(charts) IN
       reduceChartsFirstWins(Tail(charts),
                             [id \in DOMAIN acc \cup {chart.identifier} |->
                                IF id \in DOMAIN acc THEN acc[id] ELSE chart])

\* _.reduce(charts, (result, chart) => { result[chart.identifier] = chart; ... }, {})
RECURSIVE reduceCharts(_, _)
reduceCharts(charts, acc) ==
  IF charts = <<>> THEN acc
  ELSE LET chart == Head(charts) IN
       reduceCharts(Tail(charts),
                    [id \in DOMAIN acc \cup {chart.identifier} |->
                       IF id = chart.identifier THEN chart ELSE acc[id]])

\* The then and catch handlers of findCharts on the result of the walk
resolveCharts(walked) ==
  IF ~walked.ok THEN [done |-> TRUE, defined |-> FALSE, charts |-> <<>>]
  ELSE [done |-> TRUE, defined |-> TRUE,
        charts |-> reduceCharts(SelectSeq(walked.charts, LAMBDA c : c.nil = "no"), <<>>)]

\* findCharts: the mapping from identifiers to descriptors, or undefined
\* when the walk was rejected
findCharts(chartBaseDir, dir) == resolveCharts(findChartsRecursive(chartBaseDir, dir))

\* A findCharts call on the chart path resolves
scan ==
  /\ found' = findCharts(ChartDir, disk)
  /\ UNCHANGED <<jobs, obj, activeDownloads, pipe, files, unlinks, result, cancelledFiles,
                 now, disk, serverVars>>

(***************************************************************************)
(* The plugin's registry and tile routes (index.js, chart-state.js)        *)
(***************************************************************************)

NoStatus == 0          \* no answer was sent
MaxRefreshes == 2
MaxRequests == 2

\* Property names that every plain object inherits from Object.prototype
ProtoKeys == {<<"c", "o", "n", "s", "t", "r", "u", "c", "t", "o", "r">>, <<"t", "o", "S", "t", "r", "i", "n", "g">>}

\* An inherited property value: truthy, and without the properties of a
\* descriptor or of a chart state entry
Inherited == [nil |-> "proto"]

\* object[key] on a plain object: an own property, else an inherited one
lookup(object, key) ==
  IF key \in DOMAIN object THEN Some(object[key])
  ELSE IF key \in ProtoKeys THEN Some(Inherited)
  ELSE None

\* chartState[relativePath].enabled when chartState[relativePath] is truthy
enabledOf(state) ==
  IF state = None THEN Some(TRUE)
  ELSE IF "enabled" \in DOMAIN state[1] THEN Some(state[1].enabled)
  ELSE None

\* isChartEnabled: Some(TRUE), Some(FALSE), or undefined
isChartEnabled(relativePath) == enabledOf(lookup(chartState, relativePath))

\* setChartEnabled: chartState[relativePath] = { enabled }
setChartEnabled(relativePath, enabled) ==
  chartState' = [p \in DOMAIN chartState \cup {relativePath} |->
                   IF p = relativePath THEN [enabled |-> enabled] ELSE chartState[p]]

\* path.relative(from, to) for a path at or beneath from
relative(from, to) ==
  IF Len(to) > Len(from) + 1 /\ SubSeq(to, 1, Len(from) + 1) = from \o <<"/">>
    THEN SubSeq(to, Len(from) + 2, Len(to))
  ELSE <<>>

\* _.pickBy(charts, chart => isChartEnabled(path.relative(chartPath, chart._filePath)))
pickEnabled(charts) ==
  [id \in {i \in DOMAIN charts :
             isChartEnabled(relative(ChartDir, charts[i].filePath)) = Some(TRUE)} |->
     charts[id]]

\* s without its i-th element
without(s, i) == SubSeq(s, 1, i - 1) \o SubSeq(s, i + 1, Len(s))

\* doStartup or refreshChartProviders calls findCharts
refreshStart ==
  /\ up
  /\ Len(refreshes) < MaxRefreshes
  /\ refreshes' = Append(refreshes, NotScanned)
  /\ UNCHANGED <<jobs, obj, activeDownloads, pipe, files, unlinks, result, cancelledFiles,
                 now, loaderVars, chartState, chartProviders, tileStore, responses, up>>

\* The i-th findCharts call under way reads the chart directory
readCharts(i) ==
  /\ up
  /\ i \in 1..Len(refreshes)
  /\ ~refreshes[i].done
  /\ refreshes' = [refreshes EXCEPT ![i] = findCharts(ChartDir, disk)]
  /\ UNCHANGED <<jobs, obj, activeDownloads, pipe, files, unlinks, result, cancelledFiles,
                 now, loaderVars, chartState, chartProviders, tileStore, responses, up>>

\* The i-th findCharts call under way resolves and the registry is replaced
refreshDone(i) ==
  /\ up
  /\ i \in 1..Len(refreshes)
  /\ refreshes[i].done
  /\ refreshes' = without(refreshes, i)
  /\ found' = refreshes[i]
  /\ chartProviders' = pickEnabled(found'.charts)
  /\ UNCHANGED <<jobs, obj, activeDownloads, pipe, files, unlinks, result, cancelledFiles,
                 now, disk, chartState, tileStore, responses, up>>

\* The toggle route: setChartEnabled, then refreshChartProviders is called
toggle(chartPathParam, enabled) ==
  /\ up
  /\ Len(refreshes) < MaxRefreshes
  /\ setChartEnabled(chartPathParam, enabled)
  /\ refreshes' = Append(refreshes, NotScanned)
  /\ UNCHANGED <<jobs, obj, activeDownloads, pipe, files, unlinks, result, cancelledFiles,
                 now, loaderVars, chartProviders, tileStore, responses, up>>

\* String.prototype.startsWith
startsWith(s, prefix) ==
  Len(s) >= Len(prefix) /\ SubSeq(s, 1, Len(prefix)) = prefix

\* What is at the path segs beneath directory dir: "file", "dir" or "none"
RECURSIVE kindAt(_, _)
kindIn(dir, segs, hits) ==
  IF hits = {} THEN "none"
  ELSE IF Len(segs) = 1
    THEN (IF dir.entries[CHOOSE i \in hits : TRUE].isDirectory THEN "dir" ELSE "file")
  ELSE IF dir.entries[CHOOSE i \in hits : TRUE].isDirectory
    THEN kindAt(dir.entries[CHOOSE i \in hits : TRUE].content, Tail(segs))
  ELSE "none"

kindAt(dir, segs) ==
  IF segs = <<>> THEN "dir" ELSE kindIn(dir, segs, entriesNamed(dir, Head(segs)))

\* The entries without the file at the path segs
RECURSIVE unlinkIn(_, _)
unlinkIn(entries, segs) ==
  IF entries = <<>> THEN <<>>
  ELSE IF Head(entries).name # Head(segs)
    THEN <<Head(entries)>> \o unlinkIn(Tail(entries), segs)
  ELSE IF Len(segs) = 1 THEN Tail(entries)
  ELSE <<[Head(entries) EXCEPT
            !.content.entries = unlinkIn(Head(entries).content.entries, Tail(segs))]>>
       \o Tail(entries)

\* The fs.unlink calls of the cancelJob calls on the jobs of S
RECURSIVE unlinkJobs(_)
unlinkJobs(S) ==
  IF S = {} THEN EmptyBag
  ELSE unlinkAll(obj[CHOOSE id \in S : TRUE].targetDir,
                 obj[CHOOSE id \in S : TRUE].targetFiles)
       (+) unlinkJobs(S \ {CHOOSE id \in S : TRUE})

\* activeJobs.forEach(job => downloadManager.cancelJob(job.id)): every job
\* of S is in the table and not completed
cancelJobs(S) ==
  /\ obj' = [id \in DOMAIN obj |->
               IF id \in S
                 THEN [obj[id] EXCEPT !.status = "failed", !.error = CancelledMsg,
                                      !.completedAt = now]
               ELSE obj[id]]
  /\ unlinks' = unlinks (+) unlinkJobs(S)
  /\ cancelledFiles' = cancelledFiles \cup BagToSet(unlinkJobs(S))
  /\ result' = IF S = {} THEN result ELSE "success"

\* The delete route.  The path is checked against the chart path, the jobs
\* writing a file of that name are cancelled, the file is unlinked if it
\* exists (unlink fails on a directory: the route answers 500), and
\* refreshChartProviders is called.
deleteChart(chartPathParam) ==
  /\ up
  /\ Len(refreshes) < MaxRefreshes
  /\ IF ~startsWith(normalize(pathJoin(ChartDir, chartPathParam)), normalize(ChartDir))
       THEN UNCHANGED <<obj, unlinks, cancelledFiles, result, files, disk, refreshes>>
     ELSE /\ cancelJobs(findJobsByTargetFile(basename(pathJoin(ChartDir, chartPathParam))))
          /\ IF kindAt(disk, splitSlash(relative(ChartDir, pathJoin(ChartDir, chartPathParam))))
                 = "dir"
               THEN UNCHANGED <<files, disk, refreshes>>
             ELSE /\ files' = files \ {pathJoin(ChartDir, chartPathParam)}
                  /\ disk' = [disk EXCEPT !.entries =
                       unlinkIn(@, splitSlash(relative(ChartDir,
                                                      pathJoin(ChartDir, chartPathParam))))]
                  /\ refreshes' = Append(refreshes, NotScanned)
  /\ UNCHANGED <<jobs, activeDownloads, pipe, now, found, chartState, chartProviders,
                 tileStore, responses, up>>

\* A directory of the chart path loses its permissions: it can no longer
\* be listed and nothing in it can be reached
revoke(name) ==
  /\ \E i \in entriesNamed(disk, name) :
       /\ disk.entries[i].isDirectory
       /\ disk.entries[i].content.readable
       /\ disk' = [disk EXCEPT !.entries[i].content =
                                 [readable |-> FALSE, entries |-> <<>>]]
  /\ UNCHANGED <<jobs, obj, activeDownloads, pipe, files, unlinks, result, cancelledFiles,
                 now, found, serverVars>>

DigitChar == <<"0", "1", "2", "3", "4", "5", "6", "7", "8", "9">>

\* `${n}` of an integer
RECURSIVE natString(_)
natString(n) ==
  IF n < 10 THEN <<DigitChar[n + 1]>>
  ELSE natString(n \div 10) \o <<DigitChar[(n % 10) + 1]>>

intString(n) == IF n < 0 THEN <<"-">> \o natString(0 - n) ELSE natString(n)

\* _flipY ? Math.pow(2, z) - 1 - y : y
tileRow(flipY, z, y) == IF flipY THEN pow2(z) - 1 - y ELSE y

\* path.resolve(_filePath, `${z}/${x}/${row}.${format}`)
tileFile(provider, z, x, y) ==
  pathJoin(provider.filePath,
           intString(z) \o <<"/">> \o intString(x) \o <<"/">>
             \o intString(tileRow(provider.flipY, z, y)) \o <<".">> \o provider.format[1])

\* What reading a file gives: its bytes, or the error of the read
readFile(file) ==
  IF file \in DOMAIN tileStore.files THEN tileStore.files[file]
  ELSE [kind |-> "error", code |-> "ENOENT"]

\* res.sendFile and its callback: the file is sent, ENOENT answers 404, any
\* other error is thrown from the callback and nothing is answered
sendFile(file, read) ==
  IF read.kind = "bytes"
    THEN [status |-> 200, body |-> read.bytes, file |-> file, thrown |-> FALSE]
  ELSE IF read.code = "ENOENT"
    THEN [status |-> 404, body |-> "", file |-> file, thrown |-> FALSE]
  ELSE [status |-> NoStatus, body |-> "", file |-> file, thrown |-> TRUE]

\* Mutant of serveTileFromFilesystem: the row is never flipped
serveTileFromFilesystemNoFlip(provider, z, x, y) ==
  sendFile(tileFile([provider EXCEPT !.flipY = FALSE], z, x, y),
           readFile(tileFile([provider EXCEPT !.flipY = FALSE], z, x, y)))

serveTileFromFilesystem(provider, z, x, y) ==
  sendFile(tileFile(provider, z, x, y), readFile(tileFile(provider, z, x, y)))

\* _mbtilesHandle.getTile(z, x, y): the tile, or an error
getTile(filePath, z, x, y) ==
  IF filePath \in DOMAIN tileStore.tiles /\ <<z, x, y>> \in DOMAIN tileStore.tiles[filePath]
    THEN tileStore.tiles[filePath][<<z, x, y>>]
  ELSE [kind |-> "error", message |-> "Tile does not exist"]

\* The getTile callback
tileAnswer(got) ==
  IF got.kind = "error" /\ got.message = "Tile does not exist"
    THEN [status |-> 404, body |-> "", file |-> <<>>, thrown |-> FALSE]
  ELSE IF got.kind = "error"
    THEN [status |-> 500, body |-> "", file |-> <<>>, thrown |-> FALSE]
  ELSE [status |-> 200, body |-> got.bytes, file |-> <<>>, thrown |-> FALSE]

serveTileFromMbtiles(provider, z, x, y) == tileAnswer(getTile(provider.filePath, z, x, y))

\* provider._fileFormat, undefined on a value that has no such property
fileFormatOf(provider) ==
  IF "fileFormat" \in DOMAIN provider THEN provider.fileFormat ELSE "undefined"

\* The tile route on the provider it looked up
routeTile(provider, z, x, y) ==
  IF provider = None THEN [status |-> 404, body |-> "", file |-> <<>>, thrown |-> FALSE]
  ELSE IF fileFormatOf(provider[1]) = "directory"
    THEN serveTileFromFilesystem(provider[1], z, x, y)
  ELSE IF fileFormatOf(provider[1]) = "mbtiles"
    THEN serveTileFromMbtiles(provider[1], z, x, y)
  ELSE [status |-> 500, body |-> "", file |-> <<>>, thrown |-> FALSE]

\* The request with its answer; an exception thrown from a callback is
\* uncaught: the process ends unless its host handles uncaught exceptions
answered(identifier, z, x, y, provider, answer) ==
  /\ responses' = Append(responses,
                         [identifier |-> identifier, z |-> z, x |-> x, y |-> y,
                          provider |-> provider, status |-> answer.status,
                          body |-> answer.body, file |-> answer.file,
                          thrown |-> answer.thrown])
  /\ up' \in (IF answer.thrown THEN {TRUE, FALSE} ELSE {TRUE})

\* GET <chartTilesPath>/:identifier/:z/:x/:y
tileRequest(identifier, z, x, y) ==
  /\ up
  /\ Len(responses) < MaxRequests
  /\ answered(identifier, z, x, y, lookup(chartProviders, identifier),
              routeTile(lookup(chartProviders, identifier), z, x, y))
  /\ UNCHANGED <<jobs, obj, activeDownloads, pipe, files, unlinks, result, cancelledFiles,
                 now, loaderVars, chartState, chartProviders, refreshes, tileStore>>

(***************************************************************************)
(* Inputs                                                                  *)
(***************************************************************************)

UrlBase == <<"h", "t", "t", "p", ":", "/", "/", "h", "/">>
UrlDirect == UrlBase \o <<"x">> \o MBTILES            \* http://h/x.mbtiles
UrlZip    == UrlBase \o <<"a">> \o ZIP                 \* http://h/a.zip

UrlQuery  == UrlDirect \o <<"?", "k", "=", "/", "v">>   \* http://h/x.mbtiles?k=/v

NameNone   == <<>>
NameBlank  == <<" ">>                                   \* ' '
NamePad    == <<" ", "n", " ">>                         \* ' n '
NameExt    == <<"n">> \o MBTILES                        \* 'n.mbtiles'
NameUp     == <<".", ".", "/", "n">>                    \* '../n'
NameSub    == <<"d", "/", "n">>                         \* 'd/n'
NameNoDir  == <<"q", "/", "n">>                         \* 'q/n'

TypeZip   == <<"a", "p", "p", "/", "z", "i", "p">>      \* app/zip
TypeOther == <<"a", "p", "p", "/", "b", "i", "n">>      \* app/bin
TypeNone  == <<>>                                       \* no content-type header

EntryChart  == [path |-> <<"x">> \o MBTILES, type |-> "File"]
EntryNested == [path |-> <<"s", "/", "x">> \o MBTILES, type |-> "File"]
EntryOther  == [path |-> <<"r", ".", "t", "x", "t">>, type |-> "File"]
EntryDir    == [path |-> <<"t">> \o MBTILES \o <<"/">>, type |-> "Directory"]

NetErrors == {"ECONNRESET"}
WriteErrors == {"ENOSPC"}

\* cancelJob is called while few unlink calls are pending
cancelAllowed(id) ==
  id \in Ids => BagCardinality(unlinks) + Len(obj[id].targetFiles) <= MaxUnlinks

(***************************************************************************)
(* Spec: the scheduler under load.  Up to MaxJobs direct-file jobs; each   *)
(* transfer is answered 200 and written to its file; any job can be        *)
(* cancelled at any moment.  No hour passes.                               *)
(***************************************************************************)

Next ==
  \/ Len(obj) < MaxJobs /\ createJob(UrlDirect, ChartDir, NameNone)
  \/ \E id \in 0..Len(obj) : cancelAllowed(id) /\ cancelJob(id)
  \/ \E p \in BagToSet(unlinks) : unlinkDone(p)
  \/ \E id \in Ids : response(id, 200, NoHeader, TypeOther, 0)
  \/ \E id \in Ids : openDone(id, 1)
  \/ \E id \in Ids : directFinish(id)

Spec == Init /\ [][Next]_vars

(***************************************************************************)
(* SpecSweep: the scheduler with the retention sweep.  Up to MaxSweepJobs  *)
(* jobs whose transfers are answered 404 or with an archive that holds no  *)
(* chart; the clock advances by two hours.                                 *)
(***************************************************************************)

NextSweep ==
  \/ Len(obj) < MaxSweepJobs /\ createJob(UrlZip, ChartDir, NameNone)
  \/ \E id \in 0..Len(obj) : cancelAllowed(id) /\ cancelJob(id)
  \/ cleanup
  \/ now < MaxTime /\ Tick(2)
  \/ \E id \in Ids : response(id, 404, NoHeader, TypeNone, 0)
  \/ \E id \in Ids : response(id, 200, NoHeader, TypeZip, 0)
  \/ \E id \in Ids : parserFinish(id)

SpecSweep == Init /\ [][NextSweep]_vars

(***************************************************************************)
(* SpecFiles: the pipeline and the files.  Up to MaxFileJobs jobs of every *)
(* kind: direct files and archives, caller-supplied names, redirects,      *)
(* request, parser and write errors; any job can be cancelled at any       *)
(* moment.  No hour passes and bodies carry no bytes.                      *)
(***************************************************************************)

FileUrls == {UrlDirect, UrlZip}
FileNames == {NameNone, NameExt, NameUp, NameSub, NameNoDir}
FileEntries == {EntryChart, EntryNested, EntryOther, EntryDir}

NextFiles ==
  \/ \E url \in FileUrls, name \in FileNames :
       Len(obj) < MaxFileJobs /\ createJob(url, ChartDir, name)
  \/ \E id \in 0..Len(obj) : cancelAllowed(id) /\ cancelJob(id)
  \/ \E p \in BagToSet(unlinks) : unlinkDone(p)
  \/ \E id \in Ids, code \in {302, 404}, loc \in {NoHeader, UrlZip} :
       /\ (code = 302 /\ loc # NoHeader) => pipe[id].redirects < MaxRedirects
       /\ response(id, code, loc, TypeNone, 0)
  \/ \E id \in Ids, ct \in {TypeZip, TypeOther} : response(id, 200, NoHeader, ct, 0)
  \/ \E id \in Ids, msg \in NetErrors : requestError(id, msg)
  \/ \E id \in Ids, e \in FileEntries :
       pipe[id].entries < MaxEntries /\ entry(id, e.path, e.type)
  \/ \E id \in Ids : parserFinish(id)
  \/ \E id \in Ids, msg \in NetErrors : parserError(id, msg)
  \/ \E id \in Ids, k \in 1..MaxEntries : openDone(id, k)
  \/ \E id \in Ids, k \in 1..MaxEntries, msg \in WriteErrors : writeError(id, k, msg)
  \/ \E id \in Ids, k \in 1..MaxEntries : entryClose(id, k)
  \/ \E id \in Ids : directFinish(id)

SpecFiles == Init /\ [][NextFiles]_vars

(***************************************************************************)
(* SpecTransfer: one direct-file transfer in detail.  The job's URL may    *)
(* carry a query and its name may be blank, padded or hold a separator;    *)
(* the answer is any of the status codes below, with or without a Location *)
(* header and a content length; the body arrives in chunks.                *)
(***************************************************************************)

TransferUrls == {UrlDirect, UrlQuery}
TransferNames == {NameNone, NameBlank, NamePad, NameSub}
TransferCodes == {200, 204, 301, 307, 404}
Locations == {NoHeader, UrlDirect}
ContentLengths == {0, 10}
ChunkLengths == {3, 7}

NextTransfer ==
  \/ \E url \in TransferUrls, name \in TransferNames :
       Len(obj) < MaxTransferJobs /\ createJob(url, ChartDir, name)
  \/ \E id \in 0..Len(obj) : cancelAllowed(id) /\ cancelJob(id)
  \/ \E p \in BagToSet(unlinks) : unlinkDone(p)
  \/ \E id \in Ids, code \in TransferCodes, loc \in Locations, len \in ContentLengths :
       /\ (code \in {301, 302} /\ loc # NoHeader) => pipe[id].redirects < MaxRedirects
       /\ response(id, code, loc, TypeOther, len)
  \/ \E id \in Ids, n \in ChunkLengths :
       obj[id].downloadedBytes + n <= MaxBytes /\ data(id, n)
  \/ \E id \in Ids : openDone(id, 1)
  \/ \E id \in Ids, msg \in WriteErrors : writeError(id, 1, msg)
  \/ \E id \in Ids : directFinish(id)

SpecTransfer == Init /\ [][NextTransfer]_vars

(***************************************************************************)
(* SpecRetention: the retention sweep hour by hour.  Up to                 *)
(* MaxRetentionJobs jobs that fail (404, archive without chart), complete  *)
(* (direct file) or are cancelled, while the clock advances in hours.      *)
(***************************************************************************)

NextRetention ==
  \/ Len(obj) < MaxRetentionJobs /\ createJob(UrlDirect, ChartDir, NameNone)
  \/ \E id \in 0..Len(obj) : cancelAllowed(id) /\ cancelJob(id)
  \/ \E p \in BagToSet(unlinks) : unlinkDone(p)
  \/ cleanup
  \/ now < MaxRetentionTime /\ Tick(1)
  \/ \E id \in Ids : response(id, 404, NoHeader, TypeNone, 0)
  \/ \E id \in Ids : response(id, 200, NoHeader, TypeZip, 0)
  \/ \E id \in Ids : parserFinish(id)
  \/ \E id \in Ids : response(id, 200, NoHeader, TypeOther, 0)
  \/ \E id \in Ids : openDone(id, 1)
  \/ \E id \in Ids : directFinish(id)

SpecRetention == Init /\ [][NextRetention]_vars

(***************************************************************************)
(* SpecProgress: the progress of one job over its whole life.  A direct    *)
(* file or an archive with one chart; the request is redirected once, or   *)
(* answered 404 or 200 with or without a content length; the body arrives  *)
(* in chunks; the job can be cancelled at any moment.                      *)
(***************************************************************************)

NextProgress ==
  \/ \E url \in FileUrls :
       Len(obj) < MaxProgressJobs /\ createJob(url, ChartDir, NameNone)
  \/ \E id \in 0..Len(obj) : cancelAllowed(id) /\ cancelJob(id)
  \/ \E p \in BagToSet(unlinks) : unlinkDone(p)
  \/ \E id \in Ids, code \in {302, 404} :
       /\ code = 302 => pipe[id].redirects < MaxRedirects
       /\ response(id, code, obj[id].url, TypeNone, 0)
  \/ \E id \in Ids, len \in ContentLengths : response(id, 200, NoHeader, TypeOther, len)
  \/ \E id \in Ids, n \in ChunkLengths :
       obj[id].downloadedBytes + n <= MaxBytes /\ data(id, n)
  \/ \E id \in Ids : pipe[id].entries < 1 /\ entry(id, EntryChart.path, EntryChart.type)
  \/ \E id \in Ids : parserFinish(id)
  \/ \E id \in Ids : openDone(id, 1)
  \/ \E id \in Ids : entryClose(id, 1)
  \/ \E id \in Ids : directFinish(id)

SpecProgress == Init /\ [][NextProgress]_vars

(***************************************************************************)
(* SpecTermination: transfers over a network that can fail.  Up to         *)
(* MaxTerminationJobs jobs, direct files and archives; a request is        *)
(* answered 200, 404 or with a redirect, or it fails; the connection can   *)
(* be lost while the body is read.  Nobody cancels and no write fails.     *)
(* Every event that stays possible for a job happens in the end: the       *)
(* network answers or fails, the file system opens and closes files, a     *)
(* body that is not cut short is read to its end.                          *)
(***************************************************************************)

TerminationEntries == {EntryChart, EntryOther}

\* The events of the transfer of job id
networkStep(id) ==
  \/ \E code \in {302, 404}, loc \in {NoHeader, UrlZip} :
       /\ (code = 302 /\ loc # NoHeader) => pipe[id].redirects < MaxRedirects
       /\ response(id, code, loc, TypeNone, 0)
  \/ response(id, 200, NoHeader, TypeOther, 0)
  \/ \E msg \in NetErrors : requestError(id, msg)
  \/ \E hadError \in BOOLEAN, msg \in NetErrors : socketClose(id, hadError, msg)
  \/ \E e \in TerminationEntries :
       pipe[id].entries < MaxEntries /\ entry(id, e.path, e.type)
  \/ parserFinish(id)
  \/ \E k \in 1..MaxEntries : openDone(id, k)
  \/ \E k \in 1..MaxEntries : entryClose(id, k)
  \/ directFinish(id)

NextTermination ==
  \/ \E url \in FileUrls :
       Len(obj) < MaxTerminationJobs /\ createJob(url, ChartDir, NameNone)
  \/ \E id \in Ids : networkStep(id)

FairTermination ==
  \A id \in 1..MaxTerminationJobs : WF_vars(id \in Ids /\ networkStep(id))

SpecTermination == Init /\ [][NextTermination]_vars /\ FairTermination

(***************************************************************************)
(* Chart directories: the trees the discovery is run on                    *)
(***************************************************************************)

File(name, content) == [name |-> name, isDirectory |-> FALSE, content |-> content]
Dir(name, dir) == [name |-> name, isDirectory |-> TRUE, content |-> dir]
Readable(entries) == [readable |-> TRUE, entries |-> entries]
Unreadable == [readable |-> FALSE, entries |-> <<>>]

PNG == <<"p", "n", "g">>
BoundsArray == <<number(0 - 1, 0), number(50, 0), number(15, 1), number(51, 0)>>  \* [-1, 50, 1.5, 51]
BoundsText == <<"-", "1", ",", " ", "5", "0", ",", "1", ".", "5", " ", ",", "5", "1">>   \* '-1, 50,1.5 ,51'

Garbage == [kind |-> "garbage"]
SqliteOk == [kind |-> "sqlite", metadata |-> [bounds |-> BoundsArray, format |-> PNG]]
SqliteNoBounds == [kind |-> "sqlite", metadata |-> [format |-> PNG]]
SqliteEmpty == [kind |-> "sqlite", metadata |-> <<>>]

BoundingBox == [minx |-> <<"-", "1">>, miny |-> <<"5", "0">>, maxx |-> <<"1", ".", "5">>, maxy |-> <<"5", "1">>]
XmlOk == [kind |-> "xml", parsed |-> [TileMap |-> [BoundingBox |-> BoundingBox, TileFormat |-> PNG]]]
XmlNoBounds == [kind |-> "xml", parsed |-> [TileMap |-> [TileFormat |-> PNG]]]
XmlNoFormat == [kind |-> "xml", parsed |-> [TileMap |-> [BoundingBox |-> BoundingBox]]]

JsonString(str) == [t |-> "string", v |-> str]
JsonArray(items) == [t |-> "array", items |-> items]
JsonObject(object) == [kind |-> "json", value |-> [t |-> "object", v |-> object]]
JsonOk == JsonObject([bounds |-> JsonArray(BoundsArray), format |-> JsonString(PNG)])
JsonText == JsonObject([bounds |-> JsonString(BoundsText), format |-> JsonString(PNG)])
\* bounds of other shapes: a string of two numbers, an array of three, a number
JsonShort == JsonObject([bounds |-> JsonString(<<"1", ",", "2">>), format |-> JsonString(PNG)])
JsonThree == JsonObject([bounds |-> JsonArray(SubSeq(BoundsArray, 1, 3)),
                         format |-> JsonString(PNG)])
JsonNumber == JsonObject([bounds |-> [t |-> "number", n |-> number(5, 0)],
                          format |-> JsonString(PNG)])
JsonNoBounds == JsonObject([format |-> JsonString(PNG)])
JsonNoFormat == JsonObject([bounds |-> JsonArray(BoundsArray)])
JsonNull == [kind |-> "json", value |-> [t |-> "null"]]

NameA == <<"a", ".", "m", "b", "t", "i", "l", "e", "s">>           \* 'a.mbtiles'
NameT == <<"t", ".", "m", "b", "t", "i", "l", "e", "s">>           \* 't.mbtiles'
NameUpper == <<"A", ".", "M", "B", "T", "I", "L", "E", "S">>       \* 'A.MBTILES'
DirT == <<"t">>
DirU == <<"u">>
DirHidden == <<".", "h">>
NameHidden == <<".", "a", ".", "m", "b", "t", "i", "l", "e", "s">>   \* '.a.mbtiles'

TmsOptions ==
  {<<>>} \cup {<<File(TilemapResourceName, c)>> : c \in {XmlOk, XmlNoBounds, XmlNoFormat, Garbage}}
JsonOptions ==
  {<<>>} \cup {<<File(MetadataJsonName, c)>> :
                 c \in {JsonOk, JsonText, JsonShort, JsonThree, JsonNumber, JsonNoBounds,
                       JsonNoFormat, JsonNull, Garbage}}
MbOptions ==
  {<<>>} \cup {<<File(NameA, c)>> : c \in {SqliteOk, SqliteNoBounds, SqliteEmpty, Garbage}}

\* Directories of plain files: descriptor files and a tile database
LeafDirs == {Readable(tms \o json \o mb) : tms \in TmsOptions, json \in JsonOptions, mb \in MbOptions}

ChartDirOk == Readable(<<File(TilemapResourceName, XmlOk), File(NameA, SqliteOk)>>)
PlainDirOk == Readable(<<File(NameA, SqliteOk)>>)

RootFileOptions ==
  {<<>>} \cup {<<File(n, c)>> : n \in {NameT, NameUpper, NameHidden},
                               c \in {SqliteOk, SqliteNoBounds, Garbage}}
RootDirOptions == {<<>>} \cup {<<Dir(DirT, d)>> : d \in LeafDirs}
RootOtherOptions ==
  { <<>>,
    <<Dir(DirHidden, PlainDirOk)>>,
    <<Dir(NodeModules, ChartDirOk)>>,
    <<Dir(DirU, Unreadable)>>,
    <<Dir(DirU, Readable(<<Dir(DirT, ChartDirOk)>>))>>,
    <<Dir(DirU, Readable(<<Dir(DirT, PlainDirOk), Dir(DirU, Unreadable)>>))>>,
    <<Dir(NameA, ChartDirOk)>> }

\* readdir order is the file system's: the directory may come first
RootReversed ==
  {Readable(d \o f) : f \in RootFileOptions,
                      d \in {<<Dir(DirT, ChartDirOk)>>, <<Dir(DirT, PlainDirOk)>>}}

Trees ==
  {Unreadable} \cup RootReversed \cup
  {Readable(f \o d \o o) : f \in RootFileOptions, d \in RootDirOptions, o \in RootOtherOptions}

InitCharts == InitManager /\ disk \in Trees /\ found = NotScanned /\ InitServer

NextCharts == scan

SpecCharts == InitCharts /\ [][NextCharts]_vars

(***************************************************************************)
(* The registry and the tile routes: chart directories with their tiles    *)
(***************************************************************************)

DirJ == <<"j">>
DirConstructor == <<"c", "o", "n", "s", "t", "r", "u", "c", "t", "o", "r">>
IdA == <<"a">>
IdUnknown == <<"x">>

TmsDir == Readable(<<File(TilemapResourceName, XmlOk)>>)
JsonDir == Readable(<<File(MetadataJsonName, JsonOk)>>)

\* a.mbtiles, a tilemapresource.xml directory t and a metadata.json
\* directory j; in the second tree also a chart directory 'constructor'
ServeTrees ==
  { Readable(<<File(NameA, SqliteOk), Dir(DirT, TmsDir), Dir(DirJ, JsonDir)>>),
    Readable(<<File(NameA, SqliteOk), Dir(DirT, TmsDir), Dir(DirJ, JsonDir),
               Dir(DirConstructor, JsonDir)>>) }

Bytes(b) == [kind |-> "bytes", bytes |-> b]

\* Rows 0 and 1 of zoom 1 hold different tiles; reading row 3 of zoom 2
\* fails with the given error
TileFiles(code) ==
  (<<"/", "c", "/", "t", "/", "1", "/", "0", "/", "0", ".", "p", "n", "g">> :> Bytes("t0")) @@
  (<<"/", "c", "/", "t", "/", "1", "/", "0", "/", "1", ".", "p", "n", "g">> :> Bytes("t1")) @@
  (<<"/", "c", "/", "t", "/", "2", "/", "1", "/", "3", ".", "p", "n", "g">> :> [kind |-> "error", code |-> code]) @@
  (<<"/", "c", "/", "j", "/", "1", "/", "0", "/", "0", ".", "p", "n", "g">> :> Bytes("j0")) @@
  (<<"/", "c", "/", "j", "/", "1", "/", "0", "/", "1", ".", "p", "n", "g">> :> Bytes("j1")) @@
  (<<"/", "c", "/", "j", "/", "2", "/", "1", "/", "3", ".", "p", "n", "g">> :> [kind |-> "error", code |-> code])

\* The tiles of a.mbtiles: one tile, and one whose read fails
TileRows ==
  (<<"/", "c", "/", "a", ".", "m", "b", "t", "i", "l", "e", "s">> :>
     ((<<1, 0, 0>> :> Bytes("a0")) @@
      (<<1, 0, 1>> :> [kind |-> "error", message |-> "SQLITE_CORRUPT"])))

TileStores == {[files |-> TileFiles(code), tiles |-> TileRows] : code \in {"EISDIR", "EACCES"}}

Identifiers == {IdA, DirT, DirJ, IdUnknown, DirConstructor}
Zooms == {1, 2}
Columns == {0, 1}
Rows == {0, 1, 3}

InitTiles ==
  /\ InitManager
  /\ disk \in ServeTrees
  /\ found = NotScanned
  /\ chartState = <<>>
  /\ chartProviders = <<>>
  /\ refreshes = <<>>
  /\ tileStore \in TileStores
  /\ responses = <<>>
  /\ up = TRUE

NextTiles ==
  \/ refreshStart
  \/ \E i \in 1..MaxRefreshes : readCharts(i)
  \/ \E i \in 1..MaxRefreshes : refreshDone(i)
  \/ \E identifier \in Identifiers, z \in Zooms, x \in Columns, y \in Rows :
       tileRequest(identifier, z, x, y)

SpecTiles == InitTiles /\ [][NextTiles]_vars

TogglePaths == {NameA, DirT, DirConstructor}

InitRegistry ==
  /\ InitManager
  /\ disk \in ServeTrees
  /\ found = NotScanned
  /\ InitServer

NextRegistry ==
  \/ refreshStart
  \/ \E i \in 1..MaxRefreshes : readCharts(i)
  \/ \E i \in 1..MaxRefreshes : refreshDone(i)
  \/ \E chartPathParam \in TogglePaths, enabled \in BOOLEAN : toggle(chartPathParam, enabled)

SpecRegistry == InitRegistry /\ [][NextRegistry]_vars

(***************************************************************************)
(* SpecRescan: overlapping rescans.  Charts are toggled and deleted while  *)
(* up to MaxRefreshes findCharts calls are under way; each call reads the  *)
(* chart directory at some moment and resolves at a later one.             *)
(***************************************************************************)

DeletePaths == {NameA, DirT}

NextRescan ==
  \/ refreshStart
  \/ \E i \in 1..MaxRefreshes : readCharts(i)
  \/ \E i \in 1..MaxRefreshes : refreshDone(i)
  \/ \E enabled \in BOOLEAN : toggle(NameA, enabled)
  \/ \E chartPathParam \in DeletePaths : deleteChart(chartPathParam)

SpecRescan == InitRegistry /\ [][NextRescan]_vars

(***************************************************************************)
(* SpecUnreadable: rescans of a chart directory in which a directory       *)
(* becomes unreadable.                                                     *)
(***************************************************************************)

NextUnreadable ==
  \/ refreshStart
  \/ \E i \in 1..MaxRefreshes : readCharts(i)
  \/ \E i \in 1..MaxRefreshes : refreshDone(i)
  \/ \E name \in {DirT, DirJ} : revoke(name)

SpecUnreadable == InitRegistry /\ [][NextUnreadable]_vars

(***************************************************************************)
(* Properties                                                              *)
(***************************************************************************)

\* Job objects that are downloading or extracting
RunningJobs == {id \in Ids : obj[id].status \in {"downloading", "extracting"}}

\* Jobs whose processJob has started and whose promise is not yet settled
SlotHolders == {id \in Ids : pipe[id].req # "none" /\ ~pipe[id].settled}

QueuedInTable == {id \in Ids : InTable(id) /\ obj[id].status = "queued"}

\* processJob starts for job id in this step
Admitted(id) ==
  /\ pipe'[id].req = "pending"
  /\ id \in Ids => pipe[id].req = "none"

\* Position of a job in the table (0 if it is not there)
PosIn(table, id) ==
  IF \E i \in 1..Len(table) : table[i] = id
    THEN CHOOSE i \in 1..Len(table) : table[i] = id
  ELSE 0

C2_FifoAdmission ==
  [][\A id \in 1..Len(obj') :
       Admitted(id) =>
         \A older \in Ids :
           (PosIn(jobs', older) # 0 /\ PosIn(jobs', older) < PosIn(jobs', id))
             => obj[older].status # "queued"]_vars

\* The fourth job has been admitted while the fifth is still queued
C2_Witness ==
  /\ Len(obj) >= 5
  /\ pipe[4].req = "pending"
  /\ obj[5].status = "queued"

\* C3: a completed or failed job holds no concurrency slot, and a queued job
\* never waits while fewer than 3 jobs are downloading or extracting.
C3_TerminalJobsNeverBlock ==
  /\ \A id \in Ids : obj[id].status \in Terminal => id \notin SlotHolders
  /\ QueuedInTable # {} => Cardinality(RunningJobs) >= maxConcurrent

Rank(status) ==
  CASE status = "queued" -> 0
    [] status = "downloading" -> 1
    [] status = "extracting" -> 2
    [] status \in Terminal -> 3

\* C4: a status only moves forward along queued, downloading, extracting,
\* completed|failed, and a completed or failed job never changes status.
C4_ForwardOnly ==
  [][\A id \in Ids :
       /\ obj[id].status \in Terminal => obj'[id].status = obj[id].status
       /\ obj'[id].status # obj[id].status
            => Rank(obj'[id].status) > Rank(obj[id].status)]_vars

\* C5: cancelJob on a queued, downloading or extracting job makes it failed
\* with error 'Cancelled by user' and returns success; a job that failed
\* before it was admitted is never admitted.
C5_CancelForcesFailed ==
  [][\A id \in Ids :
       /\ (InTable(id) /\ obj[id].status \in Active /\ cancelJob(id))
            => /\ obj'[id].status = "failed"
               /\ obj'[id].error = CancelledMsg
               /\ result' = "success"
       /\ (obj[id].status = "failed" /\ pipe[id].req = "none")
            => /\ pipe'[id].req = "none"
               /\ obj'[id].status = "failed"]_vars

\* A job cancelled while queued is still failed and not admitted although a
\* slot is free, and a job cancelled while extracting is failed
C5_Witness ==
  /\ result = "success"
  /\ activeDownloads < maxConcurrent
  /\ \E id \in Ids : /\ obj[id].status = "failed"
                     /\ obj[id].error = CancelledMsg
                     /\ pipe[id].req = "none"
  /\ \E id \in Ids : /\ obj[id].status = "failed"
                     /\ obj[id].error = CancelledMsg
                     /\ pipe[id].parser = "parsing"

\* C6: a job carries an error only if its status is failed.
C6_ErrorOnlyWhenFailed ==
  \A id \in Ids : obj[id].error # NoError => obj[id].status = "failed"

\* C7: every name in extractedFiles is in targetFiles, and only a
\* cancellation may remove a name from targetFiles.
C7_TargetFilesSuperset ==
  /\ [](\A id \in Ids : \A k \in 1..Len(obj[id].extractedFiles) :
          seqIncludes(obj[id].targetFiles, obj[id].extractedFiles[k]))
  /\ [][\A id \in Ids :
          cancelJob(id) \/
          \A k \in 1..Len(obj[id].targetFiles) :
            seqIncludes(obj'[id].targetFiles, obj[id].targetFiles[k])]_vars

\* C8: while a queued, downloading or extracting job writes a file,
\* findJobsByTargetFile of that file's name returns the job.
C8_WriterIsFound ==
  \A id \in Ids :
    obj[id].status \in Active =>
      \A k \in 1..Len(pipe[id].streams) :
        pipe[id].streams[k].state = "open"
          => id \in findJobsByTargetFile(basename(pipe[id].streams[k].path))

\* Nothing of job id writes any more
JobQuiet(id) ==
  /\ pipe[id].req # "pending"
  /\ pipe[id].parser \notin {"parsing", "awaiting"}
  /\ \A k \in 1..Len(pipe[id].streams) :
       \/ pipe[id].streams[k].state \in {"finished", "closed", "failedClosed"}
       \/ pipe[id].mode = "direct" /\ pipe[id].streams[k].state = "failed"

\* C9: once the unlink calls and the remaining write activity of the jobs
\* have run, no file that was registered when its job was cancelled exists.
C9_CancelledFilesAbsent ==
  (unlinks = EmptyBag /\ \A id \in Ids : JobQuiet(id))
    => cancelledFiles \cap files = {}

C11_WriteErrorDeletesAndFails ==
  \A id \in Ids : \A k \in 1..Len(pipe[id].streams) :
    ( /\ pipe[id].streams[k].state \in {"failed", "failedClosed"}
      /\ unlinks = EmptyBag
      /\ JobQuiet(id) )
      => /\ pipe[id].streams[k].path \notin files
         /\ obj[id].status = "failed"

\* C12: once a job is failed, its progress, downloadedBytes, targetFiles
\* and extractedFiles no longer change.
C12_FailedJobIsFrozen ==
  [][\A id \in Ids :
       obj[id].status = "failed"
         => /\ obj'[id].progress = obj[id].progress
            /\ obj'[id].downloadedBytes = obj[id].downloadedBytes
            /\ obj'[id].targetFiles = obj[id].targetFiles
            /\ obj'[id].extractedFiles = obj[id].extractedFiles]_vars

\* C13: a response that is neither a success (2xx) nor a redirect (3xx)
\* with a Location header fails the job with 'HTTP <code>'; a redirect with
\* a Location header rewrites job.url and fetches again; a success proceeds
\* to the transfer; a job whose fetch failed issues no further request.
C13_ResponseStatus ==
  [][\A id \in Ids :
       /\ \A code \in TransferCodes, loc \in Locations, len \in ContentLengths :
            response(id, code, loc, TypeOther, len) =>
              LET success == code \in 200..299
                  redirect == code \in 300..399 /\ loc # NoHeader
              IN  /\ (~success /\ ~redirect)
                       => /\ obj'[id].status = "failed"
                          /\ obj'[id].error = HttpMsg(code)
                          /\ pipe'[id].settled
                  /\ redirect
                       => /\ obj'[id].url = loc
                          /\ pipe'[id].req = "pending"
                          /\ ~pipe'[id].settled
                  /\ success
                       => /\ pipe'[id].req = "ok"
                          /\ ~pipe'[id].settled
       /\ pipe[id].req = "failed" => pipe'[id].req = "failed"]_vars

\* C14: progress is an integer in 0..100; a data event with a known total
\* leaves progress = min(90, floor(downloadedBytes / totalBytes * 90)); with
\* an unknown total progress is 0 until the write is complete; progress is
\* 100 only when every destination write of the job has finished.
C14_Progress ==
  /\ [](\A id \in Ids :
          LET written == /\ pipe[id].streams # <<>>
                         /\ \A k \in 1..Len(pipe[id].streams) :
                              pipe[id].streams[k].state \in {"finished", "closed"}
          IN  /\ obj[id].progress \in 0..100
              /\ (obj[id].totalBytes = 0 /\ obj[id].progress # 0) => written
              /\ obj[id].progress = 100 => written)
  /\ [][\A id \in Ids :
          (obj'[id].downloadedBytes # obj[id].downloadedBytes /\ obj[id].totalBytes > 0)
            => LET d == obj'[id].downloadedBytes
                   t == obj[id].totalBytes
                   share == CHOOSE q \in 0..(d * TransferShare) :
                              q * t <= d * TransferShare /\ d * TransferShare < (q + 1) * t
               IN  obj'[id].progress = min(TransferShare, share)]_vars

\* C15: a direct-file job registers exactly one name: the trimmed chart
\* name if it is not blank, else the last path segment of the URL without
\* its query, with '.mbtiles' appended unless the name ends with it; a
\* completed job has extracted that same single name and progress 100.
C15_DirectFileName ==
  \A id \in Ids :
    pipe[id].mode = "direct" =>
      LET given == trim(obj[id].chartName)
          name == IF given # <<>> THEN given
                  ELSE basename(splitFirst(obj[id].url, "?"))
          fileName == IF endsWith(name, MBTILES) THEN name ELSE name \o MBTILES
      IN  /\ obj[id].targetFiles = <<fileName>>
          /\ obj[id].status = "completed"
               => /\ obj[id].extractedFiles = <<fileName>>
                  /\ obj[id].progress = 100

\* A terminal job whose completion is more than one hour in the past
Expired(id) ==
  /\ obj[id].status \in Terminal
  /\ obj[id].completedAt # Undefined
  /\ now - obj[id].completedAt > OneHour

\* C16: the table shrinks only by a sweep, which removes exactly the jobs
\* that are completed or failed and ended more than one hour ago, keeps the
\* other jobs in their order and unchanged, and touches neither the files
\* nor the pending deletions nor the in-flight counter.
C16_SweepExact ==
  [][Len(jobs') < Len(jobs) =>
       /\ jobs' = SelectSeq(jobs, LAMBDA id : ~Expired(id))
       /\ \A id \in Ids : (InTable(id) /\ PosIn(jobs', id) = 0)
                             => obj[id].status \notin Active
       /\ obj' = obj
       /\ pipe' = pipe
       /\ files' = files
       /\ unlinks' = unlinks
       /\ activeDownloads' = activeDownloads]_vars

\* A job has been purged while a job that ended exactly one hour ago is
\* still in the table, a transfer is under way and a file exists
C16_Witness ==
  /\ Len(jobs) < Len(obj)
  /\ \E id \in Ids : /\ InTable(id)
                       /\ obj[id].status \in Terminal
                       /\ now - obj[id].completedAt = OneHour
  /\ files # {}

\* C17: getJob returns the job of every id in the table, and getAllJobs
\* lists the jobs of the table with every later-created job before every
\* earlier-created one (ids number the jobs in creation order).
C17_MostRecentFirst ==
  /\ \A id \in Ids : InTable(id) => getJob(id) = obj[id]
  /\ Len(getAllJobs) = Len(jobs)
  /\ \A i, j \in 1..Len(getAllJobs) : i < j => getAllJobs[i] > getAllJobs[j]

(***************************************************************************)
(* Chart discovery: what a tree holds, stated on the tree itself           *)
(***************************************************************************)

isHidden(name) == Head(name) = "." \/ name = NodeModules

hasDescriptorFile(dir) ==
  entriesNamed(dir, TilemapResourceName) # {} \/ entriesNamed(dir, MetadataJsonName) # {}

\* Every entry beneath a directory, with its path; reached tells whether
\* discovery is meant to get to it: its ancestors are readable, not hidden,
\* not named like a tile database and hold no descriptor file
RECURSIVE Nodes(_, _, _, _)
RECURSIVE NodesAt(_, _, _, _)

NodesAt(p, e, here, index) ==
  {[path |-> p, entry |-> e, reached |-> here, index |-> index]}
  \cup IF e.isDirectory
         THEN Nodes(p, e.content,
                    here /\ ~isHidden(e.name) /\ ~matchesMbtiles(e.name)
                         /\ ~hasDescriptorFile(e.content),
                    index)
       ELSE {}

\* index is the position of the entry in each directory on the way to it
Nodes(path, dir, reached, index) ==
  UNION { NodesAt(pathJoin(path, dir.entries[i].name), dir.entries[i],
                  reached /\ dir.readable, Append(index, i))
        : i \in 1..Len(dir.entries) }

DiskNodes == Nodes(ChartDir, disk, TRUE, <<>>)

AllReadable ==
  disk.readable /\ \A n \in DiskNodes : n.entry.isDirectory => n.entry.content.readable

\* The descriptor file a directory is read from: tilemapresource.xml first
descriptorOf(dir) ==
  IF entriesNamed(dir, TilemapResourceName) # {}
    THEN dir.entries[CHOOSE i \in entriesNamed(dir, TilemapResourceName) : TRUE]
  ELSE dir.entries[CHOOSE i \in entriesNamed(dir, MetadataJsonName) : TRUE]

\* A candidate chart source: a file named *.mbtiles or a directory holding a
\* descriptor file
isSource(n) ==
  IF n.entry.isDirectory
    THEN ~isHidden(n.entry.name) /\ ~matchesMbtiles(n.entry.name)
         /\ hasDescriptorFile(n.entry.content)
  ELSE matchesMbtiles(n.entry.name)

\* The source's metadata can be read
parsesDescriptor(d) ==
  IF d.name = TilemapResourceName
    THEN d.content.kind = "xml" /\ "TileMap" \in DOMAIN d.content.parsed
  ELSE d.content.kind = "json" /\ d.content.value.t = "object"

parses(n) ==
  IF n.entry.isDirectory THEN parsesDescriptor(descriptorOf(n.entry.content))
  ELSE n.entry.content.kind = "sqlite"

\* The metadata of a source that parses
descriptorMetadata(d) ==
  IF d.name = TilemapResourceName THEN d.content.parsed.TileMap
  ELSE d.content.value.v

metadataOf(n) ==
  IF n.entry.isDirectory THEN descriptorMetadata(descriptorOf(n.entry.content))
  ELSE n.entry.content.metadata

boundsKey(n) ==
  IF n.entry.isDirectory /\ descriptorOf(n.entry.content).name = TilemapResourceName
    THEN "BoundingBox"
  ELSE "bounds"

formatKey(n) ==
  IF n.entry.isDirectory /\ descriptorOf(n.entry.content).name = TilemapResourceName
    THEN "TileFormat"
  ELSE "format"

lacksBounds(n) == parses(n) /\ boundsKey(n) \notin DOMAIN metadataOf(n)

lacksFormat(n) == n.entry.isDirectory /\ parses(n) /\ formatKey(n) \notin DOMAIN metadataOf(n)

isValid(n) == isSource(n) /\ parses(n) /\ ~lacksBounds(n) /\ ~lacksFormat(n)

identifierOf(n) == stripMbtiles(n.entry.name)

\* The paths of the descriptors findCharts returned
Reported == {found.charts[id].filePath : id \in DOMAIN found.charts}

\* path lies strictly beneath the directory at dirPath
isBeneath(path, dirPath) ==
  /\ Len(path) > Len(dirPath) + 1
  /\ SubSeq(path, 1, Len(dirPath) + 1) = dirPath \o <<"/">>

(* C18: a chart source lacking bounds is never present in the output of    *)
(* findCharts, whatever its kind (tile database, tile-map-descriptor       *)
(* directory, metadata-JSON directory) and whatever other valid metadata   *)
(* it has.                                                                 *)
C18_NoSourceWithoutBounds ==
  found.done /\ found.defined =>
    \A n \in DiskNodes : isSource(n) /\ lacksBounds(n) => n.path \notin Reported

(* C19: discovery never descends into a directory that holds a             *)
(* tilemapresource.xml or a metadata.json, so nothing beneath such a       *)
(* directory is reported as a chart, also when the directory's own         *)
(* metadata is invalid or fails to parse.                                  *)
C19_NoDescentIntoChartDir ==
  found.done /\ found.defined =>
    \A n \in DiskNodes :
      n.entry.isDirectory /\ hasDescriptorFile(n.entry.content) =>
        \A path \in Reported : ~isBeneath(path, n.path)

(* C20: a parse failure, missing bounds or missing format of one source    *)
(* only excludes that source: when every directory can be listed,          *)
(* findCharts resolves with a mapping that holds no such source and holds  *)
(* every valid source discovery is meant to reach (siblings, the parent's  *)
(* sources, sources of other subdirectories).                              *)
C20_BadSourceOnlyExcluded ==
  found.done /\ AllReadable =>
    /\ found.defined
    /\ \A n \in DiskNodes : n.reached /\ isSource(n) /\ ~isValid(n) => n.path \notin Reported
    /\ \A n \in DiskNodes : n.reached /\ isValid(n) => identifierOf(n) \in DOMAIN found.charts

\* The entry is hidden, or lies beneath a hidden or node_modules directory
isSkipped(n) ==
  \/ Head(n.entry.name) = "."
  \/ n.entry.isDirectory /\ n.entry.name = NodeModules
  \/ \E m \in DiskNodes :
       m.entry.isDirectory /\ isHidden(m.entry.name) /\ isBeneath(n.path, m.path)

(* C21: hidden entries (name starting with '.') and node_modules           *)
(* directories are skipped by discovery: no chart whose file or directory  *)
(* is hidden, or lies beneath a hidden or node_modules directory, is in    *)
(* the output of findCharts.                                               *)
C21_HiddenSkipped ==
  found.done /\ found.defined =>
    \A n \in DiskNodes : isSkipped(n) => n.path \notin Reported

\* a comes before b in the depth-first walk: in entry order, a directory
\* before what it holds
walkedBefore(a, b) ==
  \/ Len(a) < Len(b) /\ SubSeq(b, 1, Len(a)) = a
  \/ \E k \in 1..min(Len(a), Len(b)) :
       SubSeq(a, 1, k - 1) = SubSeq(b, 1, k - 1) /\ a[k] < b[k]

(* C22: findCharts returns one descriptor per identifier, filed under its  *)
(* own identifier; of two discovered sources with the same identifier the  *)
(* one the depth-first walk reaches later is in the mapping, never the     *)
(* earlier one.                                                            *)
C22_LaterSourceWins ==
  found.done /\ found.defined =>
    /\ \A id \in DOMAIN found.charts : found.charts[id].identifier = id
    /\ \A n1, n2 \in DiskNodes :
         /\ isSource(n1)
         /\ isValid(n2) /\ n2.reached
         /\ identifierOf(n1) = identifierOf(n2)
         /\ walkedBefore(n1.index, n2.index)
         => n1.path \notin Reported

\* Two valid sources share an identifier and the later one is in the mapping
C22_Witness ==
  /\ found.done /\ found.defined
  /\ \E n1, n2 \in DiskNodes :
       /\ isValid(n1) /\ n1.reached
       /\ isValid(n2) /\ n2.reached
       /\ identifierOf(n1) = identifierOf(n2)
       /\ walkedBefore(n1.index, n2.index)
       /\ n2.path \in Reported
       /\ n1.entry.isDirectory /\ ~n2.entry.isDirectory

\* The entry a reported descriptor was produced from
sourceAt(path) == (CHOOSE n \in DiskNodes : n.path = path).entry

\* The row flip the kind of the source asks for: tile databases and
\* metadata.json directories none, tilemapresource.xml directories one
flipOfKind(e) ==
  e.isDirectory /\ entriesNamed(e.content, TilemapResourceName) # {}

(* C23: every descriptor produced from a .mbtiles source has _flipY =      *)
(* false, every descriptor produced from a tilemapresource.xml source has  *)
(* _flipY = true, every descriptor produced from a metadata.json source    *)
(* has _flipY = false; with both descriptor files in a directory,          *)
(* tilemapresource.xml decides.                                            *)
C23_FlipByKind ==
  found.done /\ found.defined =>
    \A id \in DOMAIN found.charts :
      /\ found.charts[id].fileFormat = "mbtiles"
           <=> ~sourceAt(found.charts[id].filePath).isDirectory
      /\ found.charts[id].flipY = flipOfKind(sourceAt(found.charts[id].filePath))

\* A tile database and a directory with both descriptor files are reported
C23_Witness ==
  /\ found.done /\ found.defined
  /\ \E id \in DOMAIN found.charts :
       /\ ~sourceAt(found.charts[id].filePath).isDirectory
       /\ ~found.charts[id].flipY
  /\ \E id \in DOMAIN found.charts :
       /\ sourceAt(found.charts[id].filePath).isDirectory
       /\ entriesNamed(sourceAt(found.charts[id].filePath).content, TilemapResourceName) # {}
       /\ entriesNamed(sourceAt(found.charts[id].filePath).content, MetadataJsonName) # {}
       /\ found.charts[id].flipY

(***************************************************************************)
(* Tile routes                                                             *)
(***************************************************************************)

\* The requests that were routed to a directory chart source
DirectoryResponses ==
  {i \in 1..Len(responses) :
     /\ responses[i].provider # None
     /\ "fileFormat" \in DOMAIN responses[i].provider[1]
     /\ responses[i].provider[1].fileFormat = "directory"}

\* <sourcePath>/<z>/<x>/<row>.<format>
tileFileAt(sourcePath, z, x, row, format) ==
  sourcePath \o <<"/">> \o intString(z) \o <<"/">> \o intString(x) \o <<"/">>
    \o intString(row) \o <<".">> \o format

(* C24: for a directory chart source, resolving tile (z, x, y) reads       *)
(* <sourcePath>/<z>/<x>/<row>.<format> with row = y when _flipY is false   *)
(* and row = 2^z - 1 - y when it is true; resolving the same tile twice    *)
(* with nothing changed on disk reads the same file and gives the same     *)
(* bytes; resolving does not modify the descriptor.                        *)
C24_DirectoryTile ==
  /\ [](\A i \in DirectoryResponses :
          /\ responses[i].file =
               tileFileAt(responses[i].provider[1].filePath, responses[i].z, responses[i].x,
                          IF responses[i].provider[1].flipY
                            THEN pow2(responses[i].z) - 1 - responses[i].y
                          ELSE responses[i].y,
                          responses[i].provider[1].format[1])
          /\ responses[i].status = 200 =>
               responses[i].body = tileStore.files[responses[i].file].bytes
          /\ \A j \in DirectoryResponses :
               /\ responses[i].provider = responses[j].provider
               /\ responses[i].z = responses[j].z
               /\ responses[i].x = responses[j].x
               /\ responses[i].y = responses[j].y
               => /\ responses[i].file = responses[j].file
                  /\ responses[i].status = responses[j].status
                  /\ responses[i].body = responses[j].body)
  /\ [][Len(responses') > Len(responses) =>
          /\ chartProviders' = chartProviders
          /\ found' = found
          /\ tileStore' = tileStore]_vars

\* The same tile of a flipped directory source was resolved twice
C24_Witness ==
  /\ Len(responses) = 2
  /\ DirectoryResponses = {1, 2}
  /\ responses[1].provider[1].flipY
  /\ responses[1].identifier = responses[2].identifier
  /\ responses[1].z = 1 /\ responses[2].z = 1
  /\ responses[1].x = 0 /\ responses[2].x = 0
  /\ responses[1].y = 0 /\ responses[2].y = 0
  /\ responses[2].status = 200
  /\ responses[2].body = "t1"

(* C25: for a directory chart source, a tile request whose file is absent  *)
(* answers 404; any other I/O error while reading the tile answers 500 to  *)
(* that caller and affects that request only: the process keeps serving.   *)
C25_DirectoryTileErrors ==
  /\ up
  /\ \A i \in DirectoryResponses :
       /\ responses[i].file \notin DOMAIN tileStore.files => responses[i].status = 404
       /\ /\ responses[i].file \in DOMAIN tileStore.files
          /\ tileStore.files[responses[i].file].kind = "error"
          => responses[i].status = 500

\* The request found a descriptor of the registry under its identifier
inRegistry(answer) == answer.provider # None /\ answer.provider[1].nil = "no"

\* The tile (z, x, y) of the tile database the request was served from
tileOf(answer) ==
  IF <<answer.z, answer.x, answer.y>> \in DOMAIN tileStore.tiles[answer.provider[1].filePath]
    THEN tileStore.tiles[answer.provider[1].filePath][<<answer.z, answer.x, answer.y>>]
  ELSE [kind |-> "error", message |-> "Tile does not exist"]

(* C26: for a tile database chart, a tile request is answered from the     *)
(* container's getTile(z, x, y) with the row unchanged: 'Tile does not     *)
(* exist' answers 404, any other error answers 500, success answers 200    *)
(* with the tile bytes; a request for an identifier that is not in the     *)
(* current registry answers 404.                                           *)
C26_MbtilesTile ==
  \A i \in 1..Len(responses) :
    /\ ~inRegistry(responses[i]) => responses[i].status = 404
    /\ inRegistry(responses[i]) /\ responses[i].provider[1].fileFormat = "mbtiles" =>
         /\ tileOf(responses[i]).kind = "bytes" =>
              responses[i].status = 200 /\ responses[i].body = tileOf(responses[i]).bytes
         /\ tileOf(responses[i]).kind = "error" =>
              responses[i].status =
                IF tileOf(responses[i]).message = "Tile does not exist" THEN 404 ELSE 500

(***************************************************************************)
(* Enable/disable store and the served registry                            *)
(***************************************************************************)

\* The relative paths asked about: those that can be set and one that is
\* never set
AskedPaths == TogglePaths \cup {DirJ}

\* What the store says of a path: as set last, enabled when never set
enabledByStore(relativePath) ==
  relativePath \notin DOMAIN chartState \/ chartState[relativePath].enabled

(* C27: isChartEnabled(p) is true for every path never set; after          *)
(* setChartEnabled(p, b), isChartEnabled(p) = b and isChartEnabled(q) is   *)
(* unchanged for every q # p; after every startup load or refresh the      *)
(* registry holds exactly the discovered charts whose path relative to     *)
(* the chart root is enabled.                                              *)
C27_EnabledFilter ==
  /\ [](\A p \in AskedPaths : p \notin DOMAIN chartState => isChartEnabled(p) = Some(TRUE))
  /\ [][\A p \in TogglePaths, b \in BOOLEAN :
          toggle(p, b) =>
            /\ isChartEnabled(p)' = Some(b)
            /\ \A q \in AskedPaths \ {p} : isChartEnabled(q)' = isChartEnabled(q)]_vars
  /\ [][\A i \in 1..MaxRefreshes :
          refreshDone(i) =>
            /\ DOMAIN chartProviders' =
                 {id \in DOMAIN found'.charts :
                    enabledByStore(relative(ChartDir, found'.charts[id].filePath))}
            /\ \A id \in DOMAIN chartProviders' : chartProviders'[id] = found'.charts[id]]_vars

(***************************************************************************)
(* Bounds of metadata.json                                                 *)
(***************************************************************************)

\* The descriptors made from a metadata.json
JsonCharts ==
  {id \in DOMAIN found.charts :
     /\ sourceAt(found.charts[id].filePath).isDirectory
     /\ ~flipOfKind(sourceAt(found.charts[id].filePath))}

\* The bounds property of the metadata.json a descriptor was made from
rawBounds(chart) ==
  get(descriptorMetadata(descriptorOf(sourceAt(chart.filePath).content)), "bounds")

\* The elements of a comma-separated string, trimmed, as numbers
numbersOf(str) == [i \in 1..Len(splitComma(str)) |-> parseFloat(trim(splitComma(str)[i]))]

isFourNumbers(str) ==
  Len(numbersOf(str)) = 4 /\ \A i \in 1..4 : ~numbersOf(str)[i].nan

(* C28: in the metadata-JSON parser, bounds given as a comma-separated     *)
(* string of four numbers parse to the 4-tuple of those numbers, trimmed   *)
(* per element; bounds given as a 4-element array are taken as is; any     *)
(* other shape, including a string that does not hold exactly four         *)
(* numbers, is treated as absent bounds.                                   *)
C28_ParseBounds ==
  found.done /\ found.defined =>
    \A id \in JsonCharts :
      found.charts[id].bounds =
        IF rawBounds(found.charts[id]) = None THEN None
        ELSE IF rawBounds(found.charts[id])[1].t = "string"
          THEN IF isFourNumbers(rawBounds(found.charts[id])[1].v)
                 THEN Some(numbersOf(rawBounds(found.charts[id])[1].v))
               ELSE None
        ELSE IF /\ rawBounds(found.charts[id])[1].t = "array"
                /\ Len(rawBounds(found.charts[id])[1].items) = 4
          THEN Some(rawBounds(found.charts[id])[1].items)
        ELSE None

\* A job whose transfer has started and is not over
admitted(id) == id \in Ids /\ obj[id].status \in {"downloading", "extracting"}

\* A job that is over and whose slot has been given back
released(id) ==
  /\ id \in Ids
  /\ obj[id].status \in Terminal
  /\ obj[id].status = "failed" => obj[id].error # NoError
  /\ pipe[id].settled

\* C29: every admitted job eventually is 'completed' or 'failed' (with its
\* error recorded) and has released its concurrency slot, whatever the
\* network does: an answer, a finite chain of redirects, a request error,
\* or a connection lost in the middle of the body.
C29_Termination ==
  \A id \in 1..MaxTerminationJobs : admitted(id) ~> released(id)

\* What a refused cancelJob call leaves alone: the table, every field of
\* every job, the transfers, the files and the pending deletions
refusedFrame == <<jobs, obj, activeDownloads, pipe, files, unlinks, cancelledFiles>>

\* C30: cancelJob on an unknown id returns 'Job not found' and on a
\* completed job 'Job already completed'; either call changes no job
\* field, deletes no file and does not get to the success path, where
\* 'job-cancelled' is emitted.
C30_CancelRefused ==
  [][\A id \in 0..MaxRetentionJobs :
       cancelJob(id) =>
         /\ ~InTable(id) =>
              result' = "Job not found" /\ UNCHANGED refusedFrame
         /\ (InTable(id) /\ obj[id].status = "completed") =>
              result' = "Job already completed" /\ UNCHANGED refusedFrame]_vars

\* A completed job whose file is on disk has been refused, after a call
\* for an id that was never issued or has been purged
C30_Witness ==
  /\ result = "Job already completed"
  /\ \E id \in Ids : /\ InTable(id)
                     /\ obj[id].status = "completed"
                     /\ pathJoin(obj[id].targetDir, obj[id].targetFiles[1]) \in files
  /\ \E id \in Ids : ~InTable(id)

(***************************************************************************)
(* Cancelling a job that has already failed                                *)
(***************************************************************************)

\* C31: the error of a failed job is recorded once: cancelJob on a job that
\* failed by a transfer or write failure leaves its error and completion
\* time as they are and asks for no file to be deleted.
C31_FailedErrorKept ==
  [][\A id \in 1..MaxFileJobs :
       (/\ InTable(id)
        /\ obj[id].status = "failed"
        /\ obj[id].error # CancelledMsg
        /\ cancelJob(id))
         => /\ obj'[id].error = obj[id].error
            /\ obj'[id].completedAt = obj[id].completedAt
            /\ unlinks' = unlinks]_vars

(***************************************************************************)
(* The in-flight counter                                                   *)
(***************************************************************************)

\* C32: activeDownloads is always between 0 and 3 and equals the number of
\* jobs whose processJob has started and has not settled; it is 0 when no
\* such job is left, whatever the order of createJob, cancelJob, cleanup
\* and the ends of transfers.
C32_CounterExact ==
  /\ activeDownloads \in 0..maxConcurrent
  /\ activeDownloads = Cardinality(SlotHolders)
  /\ (\A id \in Ids : pipe[id].req = "none" \/ pipe[id].settled) => activeDownloads = 0

\* Four jobs, one of them cancelled, have all been through processJob and
\* the counter is back at 0
C32_Witness ==
  /\ Len(obj) = MaxSweepJobs
  /\ \A id \in Ids : pipe[id].settled
  /\ \E id \in Ids : obj[id].error = CancelledMsg
  /\ activeDownloads = 0

(***************************************************************************)
(* Admission                                                               *)
(***************************************************************************)

\* The jobs for which processJob starts in this step
AdmittedNow == {id \in 1..Len(obj') : Admitted(id)}

\* The jobs whose promise settles in this step
SettledNow == {id \in Ids : ~pipe[id].settled /\ pipe'[id].settled}

\* C33: processJob starts at most once per job.  A scheduling pass picks
\* only a queued job and marks it before anything else runs, so a job whose
\* processJob has started is never queued again and no later pass, whether
\* triggered by createJob or by the end of a transfer, picks it; every
\* start takes a slot of its own.
C33_AdmittedOnce ==
  /\ [](\A id \in Ids : pipe[id].req # "none" => obj[id].status # "queued")
  /\ [][\A id \in AdmittedNow :
          /\ id \in Ids => obj[id].status = "queued"
          /\ obj'[id].status = "downloading"]_vars
  /\ [][\A id \in Ids :
          pipe[id].req # "none" => pipe'[id].req # "none" /\ ~Admitted(id)]_vars
  /\ [][activeDownloads' - activeDownloads =
          Cardinality(AdmittedNow) - Cardinality(SettledNow)]_vars

\* The two jobs that had to wait have both been started, each after the
\* end of another transfer
C33_Witness ==
  /\ Len(obj) = MaxJobs
  /\ pipe[4].req # "none"
  /\ pipe[5].req # "none"
  /\ Cardinality({id \in Ids : pipe[id].settled}) >= 2

(***************************************************************************)
(* Terminal events.  processJob emits 'job-completed' where it marks the   *)
(* job completed and 'job-failed' where its catch marks it failed; both    *)
(* happen in the step that settles the job's promise.  cancelJob emits     *)
(* 'job-cancelled' on its success path, where it writes the error          *)
(* 'Cancelled by user'; that error stays until the catch overwrites it.    *)
(***************************************************************************)

\* 'job-completed' is emitted for job id in this step
emitsCompleted(id) ==
  ~pipe[id].settled /\ pipe'[id].settled /\ obj'[id].status = "completed"

\* 'job-cancelled' has been emitted for job id
wasCancelled(id) == obj[id].error = CancelledMsg

\* C34: once 'job-cancelled' has been emitted for a job, 'job-completed' is
\* never emitted for it, so the job-completed listener does not refresh the
\* registry or publish chart deltas for a cancelled job.
C34_NoCompletedAfterCancel ==
  [][\A id \in Ids : wasCancelled(id) => ~emitsCompleted(id)]_vars

(***************************************************************************)
(* Files of a cancelled job                                                *)
(***************************************************************************)

\* The destination paths of the write streams job id has opened
writtenPaths(id) == {pipe[id].streams[k].path : k \in 1..Len(pipe[id].streams)}

\* C35: after a job has been cancelled no destination file is registered
\* or created for it, and once its transfer and the pending deletions have
\* run the target directory holds none of the files the job wrote.
C35_CancelledLeavesNothing ==
  /\ [](\A id \in Ids :
          (wasCancelled(id) /\ JobQuiet(id) /\ unlinks = EmptyBag)
            => writtenPaths(id) \cap files = {})
  /\ [][\A id \in Ids :
          wasCancelled(id) =>
            /\ obj'[id].targetFiles = obj[id].targetFiles
            /\ writtenPaths(id)' \cap (files' \ files) = {}]_vars

(***************************************************************************)
(* Ownership of the files that a cancellation deletes                      *)
(***************************************************************************)

\* The jobs, never cancelled, that have written path p or are writing it
writersOf(p) ==
  {id \in Ids :
     /\ ~wasCancelled(id)
     /\ \E k \in 1..Len(pipe[id].streams) :
          /\ pipe[id].streams[k].path = p
          /\ pipe[id].streams[k].state \in {"open", "finished", "closed"}}

\* C36: cancelling a job removes no file that another job has written or
\* is writing: where two jobs use the same destination name in the same
\* directory, a file that disappears is not the file of a job that was
\* never cancelled.
C36_CancelSparesOthers ==
  [][\A p \in files \ files' : writersOf(p) = {}]_vars

(***************************************************************************)
(* Progress over the life of a job                                         *)
(***************************************************************************)

\* C37: the progress of a job never decreases: a data chunk, a redirect,
\* the switch to extraction, a cancellation and the completion each leave
\* it at least as large as it was.
C37_ProgressMonotone ==
  [][\A id \in Ids : obj'[id].progress >= obj[id].progress]_vars

\* A cancelled archive job that was redirected, received its ten bytes in
\* two chunks and ran to the end
C37_Witness ==
  \E id \in Ids :
    /\ wasCancelled(id)
    /\ pipe[id].redirects = 1
    /\ pipe[id].mode = "archive"
    /\ obj[id].totalBytes = 10
    /\ obj[id].downloadedBytes = 10
    /\ obj[id].progress = 100

(***************************************************************************)
(* Where a job writes                                                      *)
(***************************************************************************)

\* C38: every file a job writes is a direct child of the job's targetDir,
\* whatever the chart name, the URL and the archive entry paths are, also
\* when they contain '/' or '..'.
C38_WritesInsideTargetDir ==
  \A id \in Ids : \A k \in 1..Len(pipe[id].streams) :
    pipe[id].streams[k].state \in {"open", "finished", "closed"}
      => dirname(pipe[id].streams[k].path) = obj[id].targetDir

(***************************************************************************)
(* Overlapping rescans                                                     *)
(***************************************************************************)

\* The registry a scan of the chart directory as it is now would commit
currentRegistry == pickEnabled(findCharts(ChartDir, disk).charts)

\* C39: when every rescan that was started has finished, the registry is
\* the result of the most recently started scan and reflects the charts on
\* disk: a scan that read the directory before a later change does not
\* overwrite what a newer scan has committed.
C39_LatestScanWins ==
  (refreshes = <<>> /\ found.done) => chartProviders = currentRegistry

(***************************************************************************)
(* Rescans that fail                                                       *)
(***************************************************************************)

\* The entries without the directories that cannot be read
RECURSIVE readableEntries(_)
readableEntries(entries) ==
  IF entries = <<>> THEN <<>>
  ELSE IF ~Head(entries).isDirectory
    THEN <<Head(entries)>> \o readableEntries(Tail(entries))
  ELSE IF ~Head(entries).content.readable THEN readableEntries(Tail(entries))
  ELSE <<[Head(entries) EXCEPT
            !.content.entries = readableEntries(Head(entries).content.entries)]>>
       \o readableEntries(Tail(entries))

\* The enabled charts outside the directories that cannot be read
chartsElsewhere ==
  pickEnabled(findCharts(ChartDir, [disk EXCEPT !.entries = readableEntries(@)]).charts)

\* C40: a rescan that fails leaves the registry as it was, and a directory
\* that cannot be read does not remove the charts found elsewhere: after
\* every rescan the registry still holds them.
C40_FailedRescanKeepsRegistry ==
  /\ [][\A i \in 1..MaxRefreshes :
          (refreshDone(i) /\ ~found'.defined) => chartProviders' = chartProviders]_vars
  /\ [][\A i \in 1..MaxRefreshes :
          refreshDone(i) => DOMAIN chartsElsewhere \subseteq DOMAIN chartProviders']_vars

====
